---- MODULE Spec2Model ----
(***************************************************************************)
(* A model of the ccip-basic-receiver program of solana-starter-kit.       *)
(*                                                                         *)
(* The repository holds several iterations of the same program:            *)
(*   - instructions/*.rs with constants.rs, error.rs, events.rs: the       *)
(*     modular program (initialize with `init`, initialize_token_vault,    *)
(*     ccip_receive with one token_amount and 5 remaining accounts,        *)
(*     get_latest_message);                                                *)
(*   - context.rs with state.rs and instructions/withdraw_tokens.rs: the   *)
(*     iteration that adds withdraw_tokens and close-storage and whose     *)
(*     Initialize accounts are `init_if_needed`;                           *)
(*   - lib.rs: the monolithic iteration (6 remaining accounts per token).  *)
(* The model is the union of their instructions over one account world.    *)
(*                                                                         *)
(* One action is one transaction: Anchor's account validation (the         *)
(* #[derive(Accounts)] struct, in field order), then the handler, then     *)
(* Anchor's exit (close).  A failing transaction changes nothing but the   *)
(* record of the call itself (the runtime rolls it back).                  *)
(***************************************************************************)
EXTENDS Integers, Sequences, FiniteSets, TLC

VARIABLES
    state,              \* the BaseState account at the PDA [STATE_SEED]
    messages_storage,   \* the MessagesStorage account at [MESSAGES_STORAGE_SEED]
    program_accounts,   \* which other PDAs of this program exist
    router_accounts,    \* accounts created (and owned) by router programs
    token_accounts,     \* SPL token accounts: address -> account
    now,                \* Clock::get()?.unix_timestamp
    call,               \* the last instruction: its inputs and its outcome
    count_seen,         \* history: the highest message_count the record has shown
    token_metadata,     \* the TokenMetadata accounts of lib.rs: mint -> account
    bumps,              \* mint -> what the metadata seeds give with the state bump
    overflow_checks,    \* whether the build panics when an integer overflows
    chainlink_feed,     \* chainlink_solana_demo: the latest round of the feed
    decimal             \* chainlink_solana_demo: the Decimal account of execute

vars == <<state, messages_storage, program_accounts, router_accounts,
          token_accounts, now, call, count_seen, token_metadata, bumps,
          overflow_checks, chainlink_feed, decimal>>

-----------------------------------------------------------------------------
(* Bounds of the model *)

MaxCount == 2        \* accepted messages per MessagesStorage record
ValueBits == 8       \* the width that stands for the 128 bits of Decimal.value
MaxDecimals == 4     \* the feed's decimals run 0..MaxDecimals
MaxTime == 1         \* the clock runs 0..MaxTime
MaxAllowed == 1      \* allowlist entries the routers provision
Supply == 1          \* tokens in circulation

-----------------------------------------------------------------------------
(* Identities *)

ProgramId == "ccip_basic_receiver"
SystemProgram == "system_program"
TokenProgram == "spl_token"
NoKey == "none"

Users == {"alice", "mallory"}
Routers == {"routerA", "routerB"}
Offramps == {"offrampX", "offrampY"}
Chains == {1, 2}
Mints == {"mintA"}

STATE_SEED == "state"
MESSAGES_STORAGE_SEED == "messages_storage"
TOKEN_VAULT_SEED == "token_vault"
EXTERNAL_EXECUTION_CONFIG_SEED == "external_execution_config"
ALLOWED_OFFRAMP == "allowed_offramp"
TOKEN_ADMIN_SEED == "token_admin"

\* u64::to_le_bytes: the 8 bytes of n, least significant first
RECURSIVE LeBytes(_, _)
LeBytes(n, k) == IF k = 0 THEN <<>> ELSE <<n % 256>> \o LeBytes(n \div 256, k - 1)

to_le_bytes(n) == LeBytes(n, 8)

\* An address is what it was derived from: Pubkey::find_program_address is
\* taken to be injective on (seeds, program id).  An ordinary key has the
\* label "key" and no program.
Address(label, bytes, key, program) ==
    [label |-> label, bytes |-> bytes, key |-> key, program |-> program]

Key(k) == Address("key", <<>>, k, NoKey)
NoAccount == Address("none", <<>>, NoKey, NoKey)

StatePda == Address(STATE_SEED, <<>>, NoKey, ProgramId)
MessagesStoragePda == Address(MESSAGES_STORAGE_SEED, <<>>, NoKey, ProgramId)
ExternalExecutionConfigPda == Address(EXTERNAL_EXECUTION_CONFIG_SEED, <<>>, NoKey, ProgramId)
TokenAdminPda == Address(TOKEN_ADMIN_SEED, <<>>, NoKey, ProgramId)
TokenVaultAuthorityPda == Address(TOKEN_VAULT_SEED, <<>>, NoKey, ProgramId)
TokenVaultPda(mint) == Address(TOKEN_VAULT_SEED, <<>>, mint, ProgramId)

\* seeds = [EXTERNAL_EXECUTION_CONFIG_SEED, crate::ID], seeds::program = offramp_program
AuthorityPda(offramp_program) ==
    Address(EXTERNAL_EXECUTION_CONFIG_SEED, <<>>, ProgramId, offramp_program)

\* seeds = [ALLOWED_OFFRAMP, source_chain_selector.to_le_bytes(), offramp_program],
\* seeds::program = state.router
AllowedOfframpPda(chain, offramp_program, router) ==
    Address(ALLOWED_OFFRAMP, to_le_bytes(chain), offramp_program, router)

\* what a router keeps besides its allowlist entries
RouterConfigPda(router) == Address("config", <<>>, NoKey, router)

-----------------------------------------------------------------------------
(* Data: state.rs *)

TokenTransfer == "TokenTransfer"
ArbitraryMessaging == "ArbitraryMessaging"
ProgrammaticTokenTransfer == "ProgrammaticTokenTransfer"

\* Any2SVMMessage values the callers send
Datas == {<<>>, <<7>>}
TokenAmountLists == {<<>>, <<[token |-> "mintA", amount |-> 1]>>}

Any2SVMMessage(id, chain, sender, data, token_amounts) ==
    [message_id |-> id, source_chain_selector |-> chain, sender |-> sender,
     data |-> data, token_amounts |-> token_amounts]

NoMessage == Any2SVMMessage(0, 0, <<>>, <<>>, <<>>)

\* #[derive(Default)] ReceivedMessage: zeroes, empty vectors, the #[default] variant
DefaultReceivedMessage ==
    [message_id |-> 0, message_type |-> TokenTransfer, data |-> <<>>,
     token_amounts |-> <<>>, received_timestamp |-> 0,
     source_chain_selector |-> 0, sender |-> <<>>]

\* BaseState; an account that does not exist holds nothing
BaseState(owner, router) == [exists |-> TRUE, owner |-> owner, router |-> router]
NoBaseState == [exists |-> FALSE, owner |-> NoAccount, router |-> NoKey]

\* MessagesStorage, with the size the account was created with
MessagesStorage(space, last_updated, message_count, latest_message) ==
    [exists |-> TRUE, space |-> space, last_updated |-> last_updated,
     message_count |-> message_count, latest_message |-> latest_message]
NoMessagesStorage ==
    [exists |-> FALSE, space |-> 0, last_updated |-> 0, message_count |-> 0,
     latest_message |-> DefaultReceivedMessage]

\* u64::MAX.  TLC's integers end at 2^31 - 1, which stands for it.
U64_MAX == 2147483647

ANCHOR_DISCRIMINATOR == 8
MAX_MESSAGE_SIZE == 1000
MAX_MESSAGE_DATA_SIZE == 1024
MAX_TOKEN_AMOUNTS == 10
MAX_SENDER_ADDRESS_SIZE == 64
\* std::mem::size_of::<SVMTokenAmount>(): a Pubkey and a u64
SizeOfSVMTokenAmount == 40

\* space of messages_storage in initialize.rs: 8 + 8 + 8 + MAX_MESSAGE_SIZE
InitSpace == 8 + 8 + 8 + MAX_MESSAGE_SIZE

\* space of messages_storage in context.rs
InitIfNeededSpace ==
    ANCHOR_DISCRIMINATOR + 8 + 8 + 32 + 1 + (4 + MAX_MESSAGE_DATA_SIZE)
    + (4 + MAX_TOKEN_AMOUNTS * SizeOfSVMTokenAmount) + 8 + 8
    + (4 + MAX_SENDER_ADDRESS_SIZE)

\* a freshly created account is zero-filled
ZeroedMessagesStorage(space) == MessagesStorage(space, 0, 0, DefaultReceivedMessage)

-----------------------------------------------------------------------------
(* The account world *)

\* SPL token accounts of the model: the program's vault per mint (authority
\* [TOKEN_VAULT_SEED]), a token account whose authority is [TOKEN_ADMIN_SEED],
\* and one token account per user
UserTokenAccount(u) == Address("token_account", <<>>, u, NoKey)
UserTokenAccounts == {UserTokenAccount(u) : u \in Users}
AdminTokenAccount == Address("token_account", <<>>, TOKEN_ADMIN_SEED, NoKey)
\* a token account of another mint, also under [TOKEN_ADMIN_SEED]
OtherMintTokenAccount == Address("token_account", <<>>, "mintB", NoKey)
TokenAddresses ==
    {TokenVaultPda(m) : m \in Mints} \cup UserTokenAccounts
    \cup {AdminTokenAccount, OtherMintTokenAccount}

\* the decimals of a mint, set when the mint was made
MintDecimals(m) == IF m = "mintA" THEN 9 ELSE 6

TokenAccount(mint, authority, amount) ==
    [exists |-> TRUE, mint |-> mint, authority |-> authority, amount |-> amount]
NoTokenAccount == [exists |-> FALSE, mint |-> NoKey, authority |-> NoAccount, amount |-> 0]

\* TokenMetadata of lib.rs 436-443 (balance and total_withdrawn are written
\* once, as 0)
TokenMetadata(mint, total_received, last_updated) ==
    [exists |-> TRUE, mint |-> mint, total_received |-> total_received,
     last_updated |-> last_updated]
NoTokenMetadata == [exists |-> FALSE, mint |-> NoKey, total_received |-> 0, last_updated |-> 0]

\* TokenBalanceInfo of lib.rs 446-453
TokenBalanceInfo(mint, balance, total_received, total_withdrawn, last_updated) ==
    [mint |-> mint, balance |-> balance, total_received |-> total_received,
     total_withdrawn |-> total_withdrawn, last_updated |-> last_updated]
NoTokenBalanceInfo == TokenBalanceInfo(NoKey, 0, 0, 0, 0)

\* What create_program_address gives for [TOKEN_METADATA_SEED, mint] with the
\* bump of the state PDA (lib.rs 160-163): the address that
\* initialize_token_vault created with the canonical bump, another address,
\* or no address at all.  Which one is fixed by the program id and the mint.
BumpOutcomes == {"canonical", "other_address", "invalid_seeds"}

\* Accounts that another program made with the bytes of a BaseState in them:
\* the discriminator, an owner and a router of the maker's choosing
ForeignProgram == "foreign_program"
ForeignState(router) == Address("foreign_state", <<>>, router, ForeignProgram)
ForeignStates == {ForeignState(r) : r \in Routers}

\* the program that owns the account at an address (AccountInfo::owner)
OwnerOf(a) ==
    IF a = StatePda THEN (IF state.exists THEN ProgramId ELSE SystemProgram)
    ELSE IF a = MessagesStoragePda
        THEN (IF messages_storage.exists THEN ProgramId ELSE SystemProgram)
    ELSE IF a \in program_accounts THEN ProgramId
    ELSE IF a \in router_accounts THEN a.program
    ELSE IF a \in TokenAddresses /\ token_accounts[a].exists THEN TokenProgram
    ELSE IF a \in ForeignStates THEN ForeignProgram
    ELSE SystemProgram

\* chainlink_solana_demo: the Decimal account (lib.rs 59-63) and the round
\* of the feed that execute reads (answer: i128, decimals: u8)
Decimal(value, decimals) == [exists |-> TRUE, value |-> value, decimals |-> decimals]
NoDecimal == [exists |-> FALSE, value |-> 0, decimals |-> 0]
Feed(answer, decimals) == [answer |-> answer, decimals |-> decimals]
NoFeed == Feed(0, 0)

\* the record of an instruction: what was sent and what came of it
NoCall ==
    [op |-> "none", err |-> "Ok", authority |-> NoAccount, is_signer |-> FALSE,
     offramp_program |-> NoKey, allowed_offramp |-> NoAccount,
     message |-> NoMessage, token_amount |-> 0, remaining |-> <<>>,
     attempted |-> FALSE, router |-> NoKey,
     returned |-> DefaultReceivedMessage, token_amounts |-> <<>>,
     balance_info |-> NoTokenBalanceInfo, mint |-> NoKey,
     state_account |-> NoAccount, steps |-> <<>>, log |-> <<>>]

Ok == "Ok"

Init ==
    /\ state = NoBaseState
    /\ messages_storage = NoMessagesStorage
    /\ program_accounts = {}
    /\ router_accounts = {RouterConfigPda(r) : r \in Routers}
    /\ token_accounts =
           [a \in TokenAddresses |->
               IF a = UserTokenAccount("alice")
               THEN TokenAccount("mintA", Key("alice"), Supply)
               ELSE IF a \in UserTokenAccounts
               THEN TokenAccount("mintA", Key(a.key), 0)
               ELSE IF a = AdminTokenAccount
               THEN TokenAccount("mintA", TokenAdminPda, 0)
               ELSE IF a = OtherMintTokenAccount
               THEN TokenAccount("mintB", TokenAdminPda, 0)
               ELSE NoTokenAccount]
    /\ now = 0
    /\ call = NoCall
    /\ count_seen = 0
    /\ token_metadata = [m \in Mints |-> NoTokenMetadata]
    /\ bumps = [m \in Mints |-> "canonical"]
    /\ overflow_checks = TRUE
    /\ chainlink_feed = NoFeed
    /\ decimal = NoDecimal

\* Transactions run one at a time: the next one starts when the result of
\* the last one has been returned to its sender.
Idle == call.op = "none"

Return ==
    /\ ~Idle
    /\ call' = NoCall
    /\ UNCHANGED <<chainlink_feed, decimal, overflow_checks, token_metadata, bumps, state, messages_storage, program_accounts, router_accounts,
                   token_accounts, now, count_seen>>

\* The end of a transaction: the runtime keeps the writes of a transaction
\* that returned Ok and drops those of one that failed.
Commit(c, st, ms, pa, ta) ==
    /\ Idle
    /\ call' = c
    /\ state' = st
    /\ messages_storage' = ms
    /\ program_accounts' = pa
    /\ token_accounts' = ta
    /\ count_seen' = IF ms.exists /\ ms.message_count > count_seen
                   THEN ms.message_count ELSE count_seen
    /\ UNCHANGED <<chainlink_feed, decimal, overflow_checks, token_metadata, bumps, router_accounts, now>>

Revert(c) == Commit(c, state, messages_storage, program_accounts, token_accounts)

-----------------------------------------------------------------------------
(* initialize: instructions/initialize.rs (the same in lib.rs) *)

\* initialize_handler: owner and router into BaseState, the clock and a zero
\* count into MessagesStorage; latest_message stays the default
initialize_handler(authority, router, t) ==
    [state |-> BaseState(authority, router),
     messages_storage |-> MessagesStorage(InitSpace, t, 0, DefaultReceivedMessage)]

\* (accounts that are created anew whether or not they exist)
InitializeAccountsAnew(is_signer) == IF ~is_signer THEN "AccountNotSigner" ELSE Ok

\* #[derive(Accounts)] Initialize with `init` on state, messages_storage and
\* external_execution_config: the system program creates an account only at
\* an address that holds none
InitializeAccounts(is_signer) ==
    IF ~is_signer THEN "AccountNotSigner"
    ELSE IF state.exists THEN "AccountAlreadyInUse"
    ELSE IF messages_storage.exists THEN "AccountAlreadyInUse"
    ELSE IF ExternalExecutionConfigPda \in program_accounts THEN "AccountAlreadyInUse"
    ELSE Ok

Initialize(authority, is_signer, router) ==
    LET err == InitializeAccounts(is_signer)
        c == [NoCall EXCEPT !.op = "initialize", !.err = err,
                            !.authority = authority, !.is_signer = is_signer,
                            !.router = router]
        h == initialize_handler(authority, router, now)
    IN  IF err = Ok
        THEN Commit(c, h.state, h.messages_storage,
                    program_accounts \cup {ExternalExecutionConfigPda}, token_accounts)
        ELSE Revert(c)

-----------------------------------------------------------------------------
(* initialize of the iteration of context.rs: `init_if_needed` *)

\* The handler of this iteration is not among the sources.  It sets the
\* registered router and the owner in the persisted configuration and leaves
\* the message record as the account validation handed it over.
initialize_if_needed_handler(payer, router, ms) ==
    [state |-> BaseState(payer, router), messages_storage |-> ms]

\* #[derive(Accounts)] Initialize of context.rs: payer signs; state,
\* messages_storage and token_admin are created when they do not exist and
\* taken as they are when they do, if they have the space asked for
InitializeIfNeededAccounts(is_signer) ==
    IF ~is_signer THEN "AccountNotSigner"
    ELSE IF messages_storage.exists /\ messages_storage.space # InitIfNeededSpace
        THEN "ConstraintSpace"
    ELSE Ok

InitializeIfNeeded(payer, is_signer, router) ==
    LET err == InitializeIfNeededAccounts(is_signer)
        c == [NoCall EXCEPT !.op = "initialize_if_needed", !.err = err,
                            !.authority = payer, !.is_signer = is_signer,
                            !.router = router]
        ms == IF messages_storage.exists THEN messages_storage ELSE ZeroedMessagesStorage(InitIfNeededSpace)
        h == initialize_if_needed_handler(payer, router, ms)
    IN  IF err = Ok
        THEN Commit(c, h.state, h.messages_storage,
                    program_accounts \cup {TokenAdminPda}, token_accounts)
        ELSE Revert(c)

-----------------------------------------------------------------------------
(* close-storage: context.rs, CloseStorage *)

\* (accounts that any signer may close)
CloseStorageAccountsAnyOwner(owner, is_signer) ==
    IF ~state.exists THEN "AccountNotInitialized"
    ELSE IF ~messages_storage.exists THEN "AccountNotInitialized"
    ELSE IF ~is_signer THEN "AccountNotSigner"
    ELSE Ok

\* state and messages_storage are Account<..>: they must exist; owner signs
\* and is state.owner
CloseStorageAccounts(owner, is_signer) ==
    IF ~state.exists THEN "AccountNotInitialized"
    ELSE IF ~messages_storage.exists THEN "AccountNotInitialized"
    ELSE IF ~is_signer THEN "AccountNotSigner"
    ELSE IF owner # state.owner THEN "Unauthorized"
    ELSE Ok

\* `close = owner` on both accounts: they are gone when the instruction ends
CloseStorage(owner, is_signer) ==
    LET err == CloseStorageAccounts(owner, is_signer)
        c == [NoCall EXCEPT !.op = "close_storage", !.err = err,
                            !.authority = owner, !.is_signer = is_signer]
    IN  IF err = Ok
        THEN Commit(c, NoBaseState, NoMessagesStorage, program_accounts, token_accounts)
        ELSE Revert(c)

-----------------------------------------------------------------------------
(* The environment *)

\* A router creates the allowlist entry of an offramp for a source chain: a
\* PDA of the router, owned by the router.
RouterAddOfframp(router, chain, offramp) ==
    /\ Idle
    /\ AllowedOfframpPda(chain, offramp, router) \notin router_accounts
    /\ Cardinality({a \in router_accounts : a.label = ALLOWED_OFFRAMP}) < MaxAllowed
    /\ router_accounts' = router_accounts \cup {AllowedOfframpPda(chain, offramp, router)}
    /\ UNCHANGED <<chainlink_feed, decimal, overflow_checks, token_metadata, bumps, state, messages_storage, program_accounts, token_accounts,
                   now, call, count_seen>>

\* The clock of the cluster advances.
Tick ==
    /\ Idle
    /\ now < MaxTime
    /\ now' = now + 1
    /\ UNCHANGED <<chainlink_feed, decimal, overflow_checks, token_metadata, bumps, state, messages_storage, program_accounts, router_accounts,
                   token_accounts, call, count_seen>>

-----------------------------------------------------------------------------
(* The SPL token program, as far as ccip_receive uses it *)

MintAddress(m) == Address("mint", <<>>, m, NoKey)
ProgramAddress(p) == Address("program", <<>>, p, NoKey)

IsTokenAccount(ta, a) == a \in TokenAddresses /\ ta[a].exists

\* (a transfer that any account may order)
SplTransferAnyAuthority(ta, from, to, authority, signers, amount) ==
    IF ~IsTokenAccount(ta, from) \/ ~IsTokenAccount(ta, to)
        THEN [err |-> "InvalidAccountData", token_accounts |-> ta]
    ELSE IF ta[from].amount < amount
        THEN [err |-> "InsufficientFunds", token_accounts |-> ta]
    ELSE IF ta[from].mint # ta[to].mint
        THEN [err |-> "MintMismatch", token_accounts |-> ta]
    ELSE IF from = to
        THEN [err |-> Ok, token_accounts |-> ta]
    ELSE [err |-> Ok,
          token_accounts |->
              [ta EXCEPT ![from].amount = @ - amount, ![to].amount = @ + amount]]

\* spl_token Transfer of `amount` from `from` to `to` under `authority`:
\* both are token accounts of one mint, the source holds the amount, and the
\* authority of the source has signed.  The result is the error and the
\* token accounts afterwards.
SplTransfer(ta, from, to, authority, signers, amount) ==
    IF ~IsTokenAccount(ta, from) \/ ~IsTokenAccount(ta, to)
        THEN [err |-> "InvalidAccountData", token_accounts |-> ta]
    ELSE IF ta[from].amount < amount
        THEN [err |-> "InsufficientFunds", token_accounts |-> ta]
    ELSE IF ta[from].mint # ta[to].mint
        THEN [err |-> "MintMismatch", token_accounts |-> ta]
    ELSE IF ta[from].authority # authority
        THEN [err |-> "OwnerMismatch", token_accounts |-> ta]
    ELSE IF authority \notin signers
        THEN [err |-> "MissingRequiredSignature", token_accounts |-> ta]
    ELSE IF from = to
        THEN [err |-> Ok, token_accounts |-> ta]
    ELSE [err |-> Ok,
          token_accounts |->
              [ta EXCEPT ![from].amount = @ - amount, ![to].amount = @ + amount]]

\* (a transfer out of the source that credits nobody)
TokenTransferCpiDebitOnly(ta, token_program, from, to, authority, signers, amount) ==
    LET r == SplTransfer(ta, from, to, authority, signers, amount)
    IN  IF token_program # ProgramAddress(TokenProgram)
        THEN [err |-> "MissingAccount", token_accounts |-> ta]
        ELSE IF r.err # Ok THEN r
        ELSE [err |-> Ok, token_accounts |-> [ta EXCEPT ![from].amount = @ - amount]]

\* (a transfer that any program in the token program's place carries out)
TokenTransferCpiAnyProgram(ta, token_program, from, to, authority, signers, amount) ==
    SplTransfer(ta, from, to, authority, signers, amount)

\* anchor_spl::token::transfer: the instruction is built for spl_token::ID and
\* invoked with [from, to, authority]; the runtime finds the program only if
\* its account came with the call
TokenTransferCpi(ta, token_program, from, to, authority, signers, amount) ==
    IF token_program # ProgramAddress(TokenProgram)
    THEN [err |-> "MissingAccount", token_accounts |-> ta]
    ELSE SplTransfer(ta, from, to, authority, signers, amount)

-----------------------------------------------------------------------------
(* ccip_receive: instructions/ccip_receive.rs *)

\* (every message with data is a programmatic token transfer)
MessageTypeDataAsProgrammatic(message) ==
    IF message.data # <<>> THEN ProgrammaticTokenTransfer ELSE TokenTransfer

\* (the token list decides first: a message without tokens is a data message)
MessageTypeByTokens(message) ==
    IF Len(message.token_amounts) > 0
        THEN (IF message.data # <<>> THEN ProgrammaticTokenTransfer ELSE TokenTransfer)
    ELSE ArbitraryMessaging

\* lines 95-102: the message type from the message's data and token list
MessageTypeOf(message) ==
    IF message.data # <<>> /\ Len(message.token_amounts) > 0
        THEN ProgrammaticTokenTransfer
    ELSE IF message.data # <<>>
        THEN ArbitraryMessaging
    ELSE TokenTransfer

\* (the branch taken for every message that carries tokens, whatever the amount)
TransferBranchAnyAmount(message_type, token_amount) ==
    message_type = TokenTransfer \/ message_type = ProgrammaticTokenTransfer

\* (the branch taken for every nonzero amount, whatever the message type)
TransferBranchAnyType(message_type, token_amount) == token_amount > 0

\* lines 105-107: whether the call goes into the transfer branch
TransferBranch(message_type, token_amount) ==
    token_amount > 0
    /\ (message_type = TokenTransfer \/ message_type = ProgrammaticTokenTransfer)

\* (at least five accounts)
RemainingAccountsAtLeast(remaining) == Len(remaining) >= 5

\* line 111
RemainingAccountsOk(remaining) == Len(remaining) = 5

\* lines 168-177
ReceivedMessage(message, message_type, t) ==
    [message_id |-> message.message_id,
     message_type |-> message_type,
     data |-> message.data,
     token_amounts |-> message.token_amounts,
     received_timestamp |-> t,
     source_chain_selector |-> message.source_chain_selector,
     sender |-> message.sender]

\* (the count is left as it was)
StoreMessageNoCount(ms, message, message_type, t) ==
    [ms EXCEPT !.latest_message = ReceivedMessage(message, message_type, t),
               !.last_updated = t]

\* (the count wraps to zero)
StoreMessageWrapping(ms, message, message_type, t) ==
    [ms EXCEPT !.latest_message = ReceivedMessage(message, message_type, t),
               !.message_count = (@ + 1) % 2,
               !.last_updated = t]

\* (the first message is kept, later ones only counted)
StoreFirstMessage(ms, message, message_type, t) ==
    [ms EXCEPT !.latest_message =
                   IF ms.message_count = 0
                   THEN ReceivedMessage(message, message_type, t) ELSE @,
               !.message_count = @ + 1,
               !.last_updated = t]

\* `message_count += 1` (line 180) on a u64 that holds n: whether the sum is
\* above u64::MAX.  A build with overflow checks panics there; one without
\* them goes on with the sum modulo 2^64.
AddOneOverflows(n) == n = U64_MAX

\* (the new message stored under the type of the message before it)
StoreMessageKeepingType(ms, message, message_type, t) ==
    [ms EXCEPT !.latest_message =
                   ReceivedMessage(message, ms.latest_message.message_type, t),
               !.message_count = IF AddOneOverflows(@) THEN 0 ELSE @ + 1,
               !.last_updated = t]

\* lines 168-181: latest_message, message_count += 1, last_updated
StoreMessage(ms, message, message_type, t) ==
    [ms EXCEPT !.latest_message = ReceivedMessage(message, message_type, t),
               !.message_count = IF AddOneOverflows(@) THEN 0 ELSE @ + 1,
               !.last_updated = t]

\* (a handler that goes on to store the message when the transfer failed)
HandlerIgnoringTransferError(ms, ta, message, token_amount, remaining, signers, t) ==
    LET message_type == MessageTypeOf(message)
    IN  IF TransferBranch(message_type, token_amount) /\ ~RemainingAccountsOk(remaining)
        THEN [err |-> "InvalidRemainingAccounts", messages_storage |-> ms,
              token_accounts |-> ta, attempted |-> FALSE]
        ELSE [err |-> Ok,
              messages_storage |-> StoreMessage(ms, message, message_type, t),
              token_accounts |->
                  IF TransferBranch(message_type, token_amount)
                  THEN TokenTransferCpi(ta, remaining[5], remaining[2], remaining[4],
                           remaining[3], signers \cup {TokenVaultAuthorityPda},
                           token_amount).token_accounts
                  ELSE ta,
              attempted |-> TransferBranch(message_type, token_amount)]

\* The handler, lines 78-191.  `signers` are the accounts that signed the
\* transaction.  The result is the error, the accounts as the handler leaves
\* them, and whether token::transfer was invoked.
ccip_receive_handler(ms, ta, message, token_amount, remaining, signers, t) ==
    LET message_type == MessageTypeOf(message)
        failed(e, att) == [err |-> e, messages_storage |-> ms,
                           token_accounts |-> ta, attempted |-> att]
        \* lines 168-181; the panic of `+= 1` ends the program
        stored(ta2, att) ==
            IF overflow_checks /\ AddOneOverflows(ms.message_count)
            THEN failed("ProgramFailedToComplete", att)
            ELSE [err |-> Ok,
                  messages_storage |-> StoreMessage(ms, message, message_type, t),
                  token_accounts |-> ta2,
                  attempted |-> att]
    IN  IF TransferBranch(message_type, token_amount)
        THEN IF ~RemainingAccountsOk(remaining)
             THEN failed("InvalidRemainingAccounts", FALSE)
             ELSE LET token_vault == remaining[2]
                      token_vault_authority == remaining[3]
                      recipient_account == remaining[4]
                      token_program == remaining[5]
                      \* with_signer(&[&[TOKEN_VAULT_SEED, &[vault_bump]]])
                      cpi == TokenTransferCpi(ta, token_program, token_vault,
                                 recipient_account, token_vault_authority,
                                 signers \cup {TokenVaultAuthorityPda}, token_amount)
                  IN  IF cpi.err # Ok
                      THEN failed(cpi.err, TRUE)
                      ELSE stored(cpi.token_accounts, TRUE)
        ELSE stored(ta, FALSE)

\* (the steps of a handler that writes the record before it moves the tokens)
ccip_receive_steps_store_first(acc, message, token_amount, remaining, handler_err) ==
    <<"accounts">> \o
    (IF acc # Ok THEN <<>>
     ELSE <<"classify", "store">> \o
          (IF ~TransferBranch(MessageTypeOf(message), token_amount) THEN <<>>
           ELSE <<"remaining_accounts">> \o
                (IF ~RemainingAccountsOk(remaining) THEN <<>> ELSE <<"transfer">>)))

\* The steps of one ccip_receive call in the order they are run: the account
\* validation of CcipReceive (lines 11-60) before the handler is entered, the
\* classification (95-102), in the transfer branch (105-107) the length of
\* the remaining accounts (111-113) and the transfer (158), and the write of
\* the record (168-181), which is reached only when nothing before it has
\* returned an error.  `handler_err` is what the handler returns.
ccip_receive_steps(acc, message, token_amount, remaining, handler_err) ==
    <<"accounts">> \o
    (IF acc # Ok THEN <<>>
     ELSE <<"classify">> \o
          (IF ~TransferBranch(MessageTypeOf(message), token_amount) THEN <<"store">>
           ELSE <<"remaining_accounts">> \o
                (IF ~RemainingAccountsOk(remaining) THEN <<>>
                 ELSE <<"transfer">> \o
                      (IF handler_err # Ok THEN <<>> ELSE <<"store">>))))

\* #[derive(Accounts)] CcipReceive, lines 11-60.
\* authority: seeds = [EXTERNAL_EXECUTION_CONFIG_SEED, crate::ID] under offramp_program
AuthoritySeedsOk(authority, offramp_program) ==
    authority = AuthorityPda(offramp_program)

\* (seeds without the chain selector: an entry of any chain would do)
AllowedOfframpSeedsAnyChain(allowed_offramp, message, offramp_program) ==
    \E c \in Chains :
        allowed_offramp = AllowedOfframpPda(c, offramp_program, state.router)

\* allowed_offramp: seeds = [ALLOWED_OFFRAMP, chain selector, offramp_program]
\* under state.router
AllowedOfframpSeedsOk(allowed_offramp, message, offramp_program) ==
    allowed_offramp =
        AllowedOfframpPda(message.source_chain_selector, offramp_program, state.router)

\* (no owner constraint on allowed_offramp)
AllowedOfframpOwnerUnchecked(allowed_offramp) == TRUE

\* allowed_offramp: owner = state.router @ InvalidCaller
AllowedOfframpOwnerOk(allowed_offramp) == OwnerOf(allowed_offramp) = state.router

\* Anchor reads the accounts in field order (Signer, Account<..>), then checks
\* the constraints in field order, seeds before owner.
\* (the allowlist entry examined before the relay authority)
CcipReceiveAccountsAllowlistFirst(authority, is_signer, offramp_program, allowed_offramp, message) ==
    IF ~is_signer THEN "AccountNotSigner"
    ELSE IF ~state.exists THEN "AccountNotInitialized"
    ELSE IF ~messages_storage.exists THEN "AccountNotInitialized"
    ELSE IF ~AllowedOfframpSeedsOk(allowed_offramp, message, offramp_program)
        THEN "ConstraintSeeds:allowed_offramp"
    ELSE IF ~AllowedOfframpOwnerOk(allowed_offramp) THEN "InvalidCaller"
    ELSE IF ~AuthoritySeedsOk(authority, offramp_program) THEN "ConstraintSeeds:authority"
    ELSE Ok

CcipReceiveAccounts(authority, is_signer, offramp_program, allowed_offramp, message) ==
    IF ~is_signer THEN "AccountNotSigner"
    ELSE IF ~state.exists THEN "AccountNotInitialized"
    ELSE IF ~messages_storage.exists THEN "AccountNotInitialized"
    ELSE IF ~AuthoritySeedsOk(authority, offramp_program) THEN "ConstraintSeeds:authority"
    ELSE IF ~AllowedOfframpSeedsOk(allowed_offramp, message, offramp_program)
        THEN "ConstraintSeeds:allowed_offramp"
    ELSE IF ~AllowedOfframpOwnerOk(allowed_offramp) THEN "InvalidCaller"
    ELSE Ok

\* the router written in the account at an address, read as a BaseState
RouterAt(state_account) ==
    IF state_account = StatePda THEN state.router ELSE state_account.key

\* (accounts in which any account with the bytes of a BaseState is taken as
\* the state, and its router as the registered router)
CcipReceiveAccountsAnyState(state_account, authority, is_signer, offramp_program, allowed_offramp, message) ==
    IF ~is_signer THEN "AccountNotSigner"
    ELSE IF state_account = StatePda /\ ~state.exists THEN "AccountNotInitialized"
    ELSE IF state_account # StatePda /\ state_account \notin ForeignStates
        THEN "AccountDiscriminatorMismatch"
    ELSE IF ~messages_storage.exists THEN "AccountNotInitialized"
    ELSE IF ~AuthoritySeedsOk(authority, offramp_program) THEN "ConstraintSeeds:authority"
    ELSE IF allowed_offramp # AllowedOfframpPda(message.source_chain_selector,
                                  offramp_program, RouterAt(state_account))
        THEN "ConstraintSeeds:allowed_offramp"
    ELSE IF OwnerOf(allowed_offramp) # RouterAt(state_account) THEN "InvalidCaller"
    ELSE Ok

\* Account<BaseState> (lines 43-48) of the account passed as `state`: an
\* address that holds no account is not initialized; an account of another
\* program is owned by the wrong program; an account of this program that is
\* not the BaseState has another discriminator.  The program creates a
\* BaseState only at [STATE_SEED] (initialize.rs 13-20).
StateAccountType(state_account) ==
    IF OwnerOf(state_account) = SystemProgram /\ state_account.label # "key"
        THEN "AccountNotInitialized"
    ELSE IF OwnerOf(state_account) # ProgramId THEN "AccountOwnedByWrongProgram"
    ELSE IF state_account # StatePda THEN "AccountDiscriminatorMismatch"
    ELSE Ok

\* CcipReceive with the account the caller passes as `state`: the accounts
\* are read in field order (authority: Signer, ..., state: Account), and the
\* constraints are checked with the state that was read
CcipReceiveAccountsWithState(state_account, authority, is_signer, offramp_program, allowed_offramp, message) ==
    IF ~is_signer THEN "AccountNotSigner"
    ELSE IF StateAccountType(state_account) # Ok THEN StateAccountType(state_account)
    ELSE CcipReceiveAccounts(authority, is_signer, offramp_program, allowed_offramp,
                             message)

\* the serialized size of a ReceivedMessage (state.rs 46-62): message_id,
\* message_type, data, token_amounts, received_timestamp,
\* source_chain_selector, sender; a vector takes 4 bytes and its items
ReceivedMessageSize(r) ==
    32 + 1 + (4 + Len(r.data)) + (4 + Len(r.token_amounts) * SizeOfSVMTokenAmount)
       + 8 + 8 + (4 + Len(r.sender))

\* the discriminator, last_updated, message_count and the message fit the
\* space the account was created with
MessagesStorageFits(ms) ==
    ANCHOR_DISCRIMINATOR + 8 + 8 + ReceivedMessageSize(ms.latest_message) <= ms.space

\* (an entry point that runs the handler before the accounts are validated)
HandlerBeforeAccounts(acc, h, ms, ta) ==
    IF acc # Ok THEN [h EXCEPT !.err = acc] ELSE h

\* The instruction as the runtime runs it: the accounts are validated first
\* and the handler runs only when they pass.  `h` is what the handler would
\* leave; a call whose accounts fail leaves the accounts as they were.  When
\* the handler has returned Ok the accounts are written back (exit), and the
\* call fails when MessagesStorage does not fit the space of its account.
\* (an entry point that refuses a message whose id is that of the stored one)
EntryRefusingReplay(acc, h, ms, ta) ==
    IF acc # Ok
    THEN [err |-> acc, messages_storage |-> ms, token_accounts |-> ta,
          attempted |-> FALSE]
    ELSE IF h.err = Ok /\ ms.message_count > 0
            /\ h.messages_storage.latest_message.message_id = ms.latest_message.message_id
    THEN [err |-> "DuplicateMessage", messages_storage |-> ms,
          token_accounts |-> ta, attempted |-> h.attempted]
    ELSE IF h.err = Ok /\ ~MessagesStorageFits(h.messages_storage)
    THEN [err |-> "AccountDidNotSerialize", messages_storage |-> ms,
          token_accounts |-> ta, attempted |-> h.attempted]
    ELSE h

ccip_receive_entry(acc, h, ms, ta) ==
    IF acc # Ok
    THEN [err |-> acc, messages_storage |-> ms, token_accounts |-> ta,
          attempted |-> FALSE]
    ELSE IF h.err = Ok /\ ~MessagesStorageFits(h.messages_storage)
    THEN [err |-> "AccountDidNotSerialize", messages_storage |-> ms,
          token_accounts |-> ta, attempted |-> h.attempted]
    ELSE h

\* The count is followed for its first MaxCount steps and for its last ones
\* below and at u64::MAX.
CountFollowed(n) == n < MaxCount \/ n >= U64_MAX - 1

\* the instruction with the account passed as `state`
CcipReceiveWithState(state_account, authority, is_signer, offramp_program, allowed_offramp, message, token_amount, remaining) ==
    /\ CountFollowed(messages_storage.message_count)
    /\ LET acc == CcipReceiveAccountsWithState(state_account, authority, is_signer,
                      offramp_program, allowed_offramp, message)
           h == ccip_receive_handler(messages_storage, token_accounts, message,
                    token_amount, remaining,
                    IF is_signer THEN {authority} ELSE {}, now)
           r == ccip_receive_entry(acc, h, messages_storage, token_accounts)
           c == [NoCall EXCEPT !.op = "ccip_receive", !.err = r.err,
                    !.authority = authority, !.is_signer = is_signer,
                    !.offramp_program = offramp_program,
                    !.allowed_offramp = allowed_offramp,
                    !.message = message, !.token_amount = token_amount,
                    !.remaining = remaining,
                    !.attempted = r.attempted,
                    !.state_account = state_account,
                    !.steps = ccip_receive_steps(acc, message, token_amount,
                                                 remaining, h.err)]
       IN  Commit(c, state, r.messages_storage, program_accounts, r.token_accounts)

\* the instruction with the program's own state account
CcipReceive(authority, is_signer, offramp_program, allowed_offramp, message, token_amount, remaining) ==
    /\ CountFollowed(messages_storage.message_count)
    /\ LET acc == CcipReceiveAccounts(authority, is_signer, offramp_program,
                                      allowed_offramp, message)
           h == ccip_receive_handler(messages_storage, token_accounts, message,
                    token_amount, remaining,
                    IF is_signer THEN {authority} ELSE {}, now)
           r == ccip_receive_entry(acc, h, messages_storage, token_accounts)
           c == [NoCall EXCEPT !.op = "ccip_receive", !.err = r.err,
                    !.authority = authority, !.is_signer = is_signer,
                    !.offramp_program = offramp_program,
                    !.allowed_offramp = allowed_offramp,
                    !.message = message, !.token_amount = token_amount,
                    !.remaining = remaining,
                    !.attempted = r.attempted,
                    !.state_account = StatePda,
                    !.steps = ccip_receive_steps(acc, message, token_amount,
                                                 remaining, h.err)]
       IN  Commit(c, state, r.messages_storage, program_accounts, r.token_accounts)

-----------------------------------------------------------------------------
(* initialize_token_vault: instructions/initialize_token_vault.rs *)

\* #[derive(Accounts)] InitializeTokenVault: state exists, authority signs,
\* token_vault is created (`init`) at [TOKEN_VAULT_SEED, mint], and authority
\* is state.owner
\* (accounts in which any signer stands for the owner)
InitializeTokenVaultAccountsAnySigner(authority, is_signer, mint) ==
    IF ~state.exists THEN "AccountNotInitialized"
    ELSE IF ~is_signer THEN "AccountNotSigner"
    ELSE IF token_accounts[TokenVaultPda(mint)].exists THEN "AccountAlreadyInUse"
    ELSE Ok

InitializeTokenVaultAccounts(authority, is_signer, mint) ==
    IF ~state.exists THEN "AccountNotInitialized"
    ELSE IF ~is_signer THEN "AccountNotSigner"
    ELSE IF token_accounts[TokenVaultPda(mint)].exists THEN "AccountAlreadyInUse"
    ELSE IF authority # state.owner THEN "OnlyOwner"
    ELSE Ok

\* token::mint = token_mint, token::authority = token_vault_authority; the
\* handler only emits an event
\* (a vault creation that also starts the message count anew)
InitializeTokenVaultResettingCount(authority, is_signer, mint) ==
    LET err == InitializeTokenVaultAccounts(authority, is_signer, mint)
        c == [NoCall EXCEPT !.op = "initialize_token_vault", !.err = err,
                            !.authority = authority, !.is_signer = is_signer,
                            !.mint = mint]
    IN  IF err = Ok
        THEN Commit(c, state, [messages_storage EXCEPT !.message_count = 0],
                 program_accounts,
                 [token_accounts EXCEPT ![TokenVaultPda(mint)] =
                      TokenAccount(mint, TokenVaultAuthorityPda, 0)])
        ELSE Revert(c)

InitializeTokenVault(authority, is_signer, mint) ==
    LET err == InitializeTokenVaultAccounts(authority, is_signer, mint)
        c == [NoCall EXCEPT !.op = "initialize_token_vault", !.err = err,
                            !.authority = authority, !.is_signer = is_signer,
                            !.mint = mint]
    IN  IF err = Ok
        THEN Commit(c, state, messages_storage, program_accounts,
                 [token_accounts EXCEPT ![TokenVaultPda(mint)] =
                      TokenAccount(mint, TokenVaultAuthorityPda, 0)])
        ELSE Revert(c)

-----------------------------------------------------------------------------
(* get_latest_message: instructions/get_latest_message.rs *)

\* (a handler that answers with an empty message)
GetLatestMessageEmpty(ms) == DefaultReceivedMessage

\* lines 28-32: a copy of the stored latest_message
get_latest_message_handler(ms) == ms.latest_message

\* (an account that is taken as it comes)
GetLatestMessageAccountsUnchecked == Ok

\* #[derive(Accounts)] GetLatestMessage, lines 8-16: Account<MessagesStorage>
GetLatestMessageAccounts ==
    IF ~messages_storage.exists THEN "AccountNotInitialized" ELSE Ok

GetLatestMessage ==
    LET err == GetLatestMessageAccounts
        c == [NoCall EXCEPT !.op = "get_latest_message", !.err = err,
                  !.returned = IF err = Ok
                               THEN get_latest_message_handler(messages_storage)
                               ELSE DefaultReceivedMessage]
    IN  Commit(c, state, messages_storage, program_accounts, token_accounts)

-----------------------------------------------------------------------------
(* withdraw_tokens: context.rs WithdrawTokens, instructions/withdraw_tokens.rs *)

\* spl_token_2022 TransferChecked: Transfer, with the mint and its decimals
\* checked as well
SplTransferChecked(ta, from, mint, to, authority, signers, amount, decimals) ==
    IF IsTokenAccount(ta, from) /\ ta[from].mint # mint
        THEN [err |-> "MintMismatch", token_accounts |-> ta]
    ELSE IF decimals # MintDecimals(mint)
        THEN [err |-> "MintDecimalsMismatch", token_accounts |-> ta]
    ELSE SplTransfer(ta, from, to, authority, signers, amount)

\* handler, lines 22-57: transfer_checked signed with [TOKEN_ADMIN_SEED, bump]
withdraw_tokens_handler(ta, program_token_account, mint, to_token_account, signers, amount, decimals) ==
    SplTransferChecked(ta, program_token_account, mint, to_token_account,
                       TokenAdminPda, signers \cup {TokenAdminPda}, amount, decimals)

\* the token program that owns a mint (the owner of the mint account)
MintOwner(mint) == ProgramAddress(TokenProgram)

\* (accounts in which any signer stands for the owner)
WithdrawTokensAccountsAnySigner(authority, is_signer, program_token_account, to_token_account, mint, token_program) ==
    IF ~state.exists THEN "AccountNotInitialized"
    ELSE IF ~IsTokenAccount(token_accounts, program_token_account)
        THEN "AccountNotInitialized"
    ELSE IF ~IsTokenAccount(token_accounts, to_token_account)
        THEN "AccountNotInitialized"
    ELSE IF ~is_signer THEN "AccountNotSigner"
    ELSE IF token_accounts[program_token_account].mint # mint THEN "ConstraintTokenMint"
    ELSE IF token_accounts[program_token_account].authority # TokenAdminPda
        THEN "ConstraintTokenOwner"
    ELSE IF ProgramAddress(OwnerOf(program_token_account)) # token_program
        THEN "ConstraintTokenTokenProgram"
    ELSE IF token_accounts[to_token_account].mint # mint THEN "ConstraintTokenMint"
    ELSE IF ProgramAddress(OwnerOf(to_token_account)) # token_program
        THEN "ConstraintTokenTokenProgram"
    ELSE IF token_program # MintOwner(mint) THEN "ConstraintAddress"
    ELSE Ok

\* #[derive(Accounts)] WithdrawTokens: the accounts are read in field order
\* (state, the two token accounts, the mint, ..., authority: Signer), then the
\* constraints are checked in field order: token::mint, token::authority and
\* token::token_program of the source, token::mint and token::token_program
\* of the destination, the address of token_program, and authority =
\* state.owner last
WithdrawTokensAccounts(authority, is_signer, program_token_account, to_token_account, mint, token_program) ==
    IF ~state.exists THEN "AccountNotInitialized"
    ELSE IF ~IsTokenAccount(token_accounts, program_token_account)
        THEN "AccountNotInitialized"
    ELSE IF ~IsTokenAccount(token_accounts, to_token_account)
        THEN "AccountNotInitialized"
    ELSE IF ~is_signer THEN "AccountNotSigner"
    ELSE IF token_accounts[program_token_account].mint # mint THEN "ConstraintTokenMint"
    ELSE IF token_accounts[program_token_account].authority # TokenAdminPda
        THEN "ConstraintTokenOwner"
    ELSE IF ProgramAddress(OwnerOf(program_token_account)) # token_program
        THEN "ConstraintTokenTokenProgram"
    ELSE IF token_accounts[to_token_account].mint # mint THEN "ConstraintTokenMint"
    ELSE IF ProgramAddress(OwnerOf(to_token_account)) # token_program
        THEN "ConstraintTokenTokenProgram"
    ELSE IF token_program # MintOwner(mint) THEN "ConstraintAddress"
    ELSE IF authority # state.owner THEN "Unauthorized"
    ELSE Ok

WithdrawTokens(authority, is_signer, program_token_account, to_token_account, mint, token_program, amount, decimals) ==
    LET acc == WithdrawTokensAccounts(authority, is_signer, program_token_account,
                                      to_token_account, mint, token_program)
        h == withdraw_tokens_handler(token_accounts, program_token_account, mint,
                 to_token_account, IF is_signer THEN {authority} ELSE {},
                 amount, decimals)
        err == IF acc # Ok THEN acc ELSE h.err
        c == [NoCall EXCEPT !.op = "withdraw_tokens", !.err = err,
                  !.authority = authority, !.is_signer = is_signer,
                  !.token_amount = amount,
                  !.remaining = <<program_token_account, to_token_account,
                                  MintAddress(mint), token_program>>,
                  !.attempted = (acc = Ok)]
    IN  IF err = Ok
        THEN Commit(c, state, messages_storage, program_accounts, h.token_accounts)
        ELSE Revert(c)

-----------------------------------------------------------------------------
(* lib.rs: the monolithic iteration.  Its initialize and get_latest_message *)
(* are those of the modular program; its initialize_token_vault creates a  *)
(* TokenMetadata account with the vault, and its ccip_receive takes a list *)
(* of token amounts and 6 remaining accounts per token.                     *)

TOKEN_METADATA_SEED == "token_metadata"

\* seeds = [TOKEN_METADATA_SEED, token_mint], lines 367-373
TokenMetadataPda(mint) == Address(TOKEN_METADATA_SEED, <<>>, mint, ProgramId)

\* the mints there are; vaults are made for those of Mints
AllMints == Mints \cup {"mintB"}

\* u64::checked_add
checked_add(a, b) ==
    IF a > U64_MAX - b THEN [some |-> FALSE, value |-> 0]
    ELSE [some |-> TRUE, value |-> a + b]

\* #[derive(Accounts)] InitializeTokenVault, lines 347-395: state, the
\* signer, the mint, then `init` of token_metadata and of token_vault, then
\* address = state.owner
InitializeTokenVaultMetadataAccounts(authority, is_signer, mint) ==
    IF ~state.exists THEN "AccountNotInitialized"
    ELSE IF ~is_signer THEN "AccountNotSigner"
    ELSE IF token_metadata[mint].exists THEN "AccountAlreadyInUse"
    ELSE IF token_accounts[TokenVaultPda(mint)].exists THEN "AccountAlreadyInUse"
    ELSE IF authority # state.owner THEN "OnlyOwner"
    ELSE Ok

\* initialize_token_vault, lines 43-58: the metadata of the mint with zero
\* counters and the clock
InitializeTokenVaultMetadata(authority, is_signer, mint) ==
    LET err == InitializeTokenVaultMetadataAccounts(authority, is_signer, mint)
        c == [NoCall EXCEPT !.op = "initialize_token_vault", !.err = err,
                            !.authority = authority, !.is_signer = is_signer,
                            !.mint = mint]
    IN  /\ Idle
        /\ call' = c
        /\ IF err = Ok
           THEN /\ token_metadata' =
                       [token_metadata EXCEPT ![mint] = TokenMetadata(mint, 0, now)]
                /\ token_accounts' =
                       [token_accounts EXCEPT ![TokenVaultPda(mint)] =
                            TokenAccount(mint, TokenVaultAuthorityPda, 0)]
           ELSE UNCHANGED <<token_metadata, token_accounts>>
        /\ UNCHANGED <<state, messages_storage, program_accounts, router_accounts,
                       now, count_seen, bumps, overflow_checks, chainlink_feed,
                       decimal>>

\* Account::<T>::try_from (lines 132-135) of an account that is not a T: an
\* address that holds no account is not initialized, any other account is
\* owned by the wrong program
NotOfType(a) ==
    IF \/ (a \in TokenAddresses /\ ~token_accounts[a].exists)
       \/ (\E m \in Mints : a = TokenMetadataPda(m) /\ ~token_metadata[m].exists)
    THEN "AccountNotInitialized"
    ELSE "AccountOwnedByWrongProgram"

\* the metadata account at an address
MetadataAt(a) == token_metadata[CHOOSE m \in Mints : a = TokenMetadataPda(m)]

\* (the mint of the recipient account not compared with the mint)
token_checks_recipient_unchecked(ta, remaining, i) ==
    LET start_idx == (i - 1) * 6
        token_mint_info == remaining[start_idx + 1]
        token_metadata_info == remaining[start_idx + 2]
        token_vault_info == remaining[start_idx + 3]
        recipient_account_info == remaining[start_idx + 5]
    IN  IF ~(\E m \in AllMints : token_mint_info = MintAddress(m))
            THEN NotOfType(token_mint_info)
        ELSE IF ~(\E m \in Mints : token_metadata_info = TokenMetadataPda(m)
                                    /\ token_metadata[m].exists)
            THEN NotOfType(token_metadata_info)
        ELSE IF ~IsTokenAccount(ta, token_vault_info)
            THEN NotOfType(token_vault_info)
        ELSE IF ~IsTokenAccount(ta, recipient_account_info)
            THEN NotOfType(recipient_account_info)
        ELSE IF MintAddress(MetadataAt(token_metadata_info).mint) # token_mint_info
            THEN "TokenMismatch"
        ELSE IF MintAddress(ta[token_vault_info].mint) # token_mint_info
            THEN "TokenMismatch"
        ELSE IF bumps[MetadataAt(token_metadata_info).mint] = "invalid_seeds"
            THEN "ProgramFailedToComplete"
        ELSE IF bumps[MetadataAt(token_metadata_info).mint] # "canonical"
            THEN "AccountValidationFailed"
        ELSE Ok

\* Lines 122-165 for the token at index i (from 1) of the list: the six
\* accounts of the token, the four conversions, the three comparisons with
\* the mint, and the derivation of the metadata address with the bump of the
\* state PDA (the unwrap panics when the seeds give no address).
token_checks(ta, remaining, i) ==
    LET start_idx == (i - 1) * 6
        token_mint_info == remaining[start_idx + 1]
        token_metadata_info == remaining[start_idx + 2]
        token_vault_info == remaining[start_idx + 3]
        recipient_account_info == remaining[start_idx + 5]
    IN  IF ~(\E m \in AllMints : token_mint_info = MintAddress(m))
            THEN NotOfType(token_mint_info)
        ELSE IF ~(\E m \in Mints : token_metadata_info = TokenMetadataPda(m)
                                    /\ token_metadata[m].exists)
            THEN NotOfType(token_metadata_info)
        ELSE IF ~IsTokenAccount(ta, token_vault_info)
            THEN NotOfType(token_vault_info)
        ELSE IF ~IsTokenAccount(ta, recipient_account_info)
            THEN NotOfType(recipient_account_info)
        ELSE IF MintAddress(MetadataAt(token_metadata_info).mint) # token_mint_info
            THEN "TokenMismatch"
        ELSE IF MintAddress(ta[token_vault_info].mint) # token_mint_info
            THEN "TokenMismatch"
        ELSE IF MintAddress(ta[recipient_account_info].mint) # token_mint_info
            THEN "TokenMismatch"
        ELSE IF bumps[MetadataAt(token_metadata_info).mint] = "invalid_seeds"
            THEN "ProgramFailedToComplete"
        ELSE IF bumps[MetadataAt(token_metadata_info).mint] # "canonical"
            THEN "AccountValidationFailed"
        ELSE Ok

\* Lines 122-211 for the token at index i: the checks, total_received
\* (written to the handler's own copy of the metadata, which nothing writes
\* back to the account), and the transfer.  `acc` is the outcome so far.
process_token(acc, token_amount, remaining, signers, i) ==
    LET start_idx == (i - 1) * 6
        checks == token_checks(acc.token_accounts, remaining, i)
        cpi == TokenTransferCpi(acc.token_accounts, remaining[start_idx + 6],
                   remaining[start_idx + 3], remaining[start_idx + 5],
                   remaining[start_idx + 4],
                   signers \cup {TokenVaultAuthorityPda}, token_amount)
    IN  IF checks # Ok
            THEN [acc EXCEPT !.err = checks]
        ELSE IF ~checked_add(MetadataAt(remaining[start_idx + 2]).total_received,
                             token_amount).some
            THEN [acc EXCEPT !.err = "ArithmeticOverflow"]
        ELSE [err |-> cpi.err, token_accounts |-> cpi.token_accounts,
              attempted |-> TRUE]

\* the loop of lines 115-211 from index i on
RECURSIVE process_tokens(_, _, _, _, _)
process_tokens(acc, token_amounts, remaining, signers, i) ==
    IF i > Len(token_amounts) \/ acc.err # Ok THEN acc
    ELSE IF token_amounts[i] = 0
        THEN process_tokens(acc, token_amounts, remaining, signers, i + 1)
    ELSE process_tokens(process_token(acc, token_amounts[i], remaining, signers, i),
                        token_amounts, remaining, signers, i + 1)

\* (the loop with every check of every token made before the first transfer)
ccip_receive_checks_first(ms, ta, message, token_amounts, remaining, signers, t) ==
    LET message_type == MessageTypeOf(message)
        bad == {i \in 1..Len(token_amounts) :
                   token_amounts[i] # 0 /\ token_checks(ta, remaining, i) # Ok}
        first == CHOOSE i \in bad : \A j \in bad : i <= j
        moved == process_tokens([err |-> Ok, token_accounts |-> ta, attempted |-> FALSE],
                                token_amounts, remaining, signers, 1)
    IN  IF token_amounts # <<>>
           /\ (message_type = TokenTransfer \/ message_type = ProgrammaticTokenTransfer)
        THEN IF Len(remaining) # Len(token_amounts) * 6
             THEN [err |-> "InvalidRemainingAccounts", messages_storage |-> ms,
                   token_accounts |-> ta, attempted |-> FALSE]
             ELSE IF bad # {}
             THEN [err |-> token_checks(ta, remaining, first), messages_storage |-> ms,
                   token_accounts |-> ta, attempted |-> FALSE]
             ELSE IF moved.err # Ok
             THEN [err |-> moved.err, messages_storage |-> ms,
                   token_accounts |-> ta, attempted |-> moved.attempted]
             ELSE [err |-> Ok,
                   messages_storage |-> StoreMessage(ms, message, message_type, t),
                   token_accounts |-> moved.token_accounts,
                   attempted |-> moved.attempted]
        ELSE [err |-> Ok,
              messages_storage |-> StoreMessage(ms, message, message_type, t),
              token_accounts |-> ta, attempted |-> FALSE]

\* (the number of remaining accounts looked at only when some amount is not 0)
ccip_receive_shape_when_needed(ms, ta, message, token_amounts, remaining, signers, t) ==
    LET message_type == MessageTypeOf(message)
        moved == process_tokens([err |-> Ok, token_accounts |-> ta, attempted |-> FALSE],
                                token_amounts, remaining, signers, 1)
        failed(e, att) == [err |-> e, messages_storage |-> ms,
                           token_accounts |-> ta, attempted |-> att]
        stored(ta2, att) ==
            IF overflow_checks /\ AddOneOverflows(ms.message_count)
            THEN failed("ProgramFailedToComplete", att)
            ELSE [err |-> Ok,
                  messages_storage |-> StoreMessage(ms, message, message_type, t),
                  token_accounts |-> ta2,
                  attempted |-> att]
    IN  IF (\E i \in 1..Len(token_amounts) : token_amounts[i] # 0)
           /\ (message_type = TokenTransfer \/ message_type = ProgrammaticTokenTransfer)
        THEN IF Len(remaining) # Len(token_amounts) * 6
             THEN failed("InvalidRemainingAccounts", FALSE)
             ELSE IF moved.err # Ok
             THEN failed(moved.err, moved.attempted)
             ELSE stored(moved.token_accounts, moved.attempted)
        ELSE stored(ta, FALSE)

\* ccip_receive of lib.rs, lines 73-238
ccip_receive(ms, ta, message, token_amounts, remaining, signers, t) ==
    LET message_type == MessageTypeOf(message)
        moved == process_tokens([err |-> Ok, token_accounts |-> ta, attempted |-> FALSE],
                                token_amounts, remaining, signers, 1)
        failed(e, att) == [err |-> e, messages_storage |-> ms,
                           token_accounts |-> ta, attempted |-> att]
        \* lines 215-228; the panic of `+= 1` ends the program
        stored(ta2, att) ==
            IF overflow_checks /\ AddOneOverflows(ms.message_count)
            THEN failed("ProgramFailedToComplete", att)
            ELSE [err |-> Ok,
                  messages_storage |-> StoreMessage(ms, message, message_type, t),
                  token_accounts |-> ta2,
                  attempted |-> att]
    IN  IF token_amounts # <<>>
           /\ (message_type = TokenTransfer \/ message_type = ProgrammaticTokenTransfer)
        THEN IF Len(remaining) # Len(token_amounts) * 6
             THEN failed("InvalidRemainingAccounts", FALSE)
             ELSE IF moved.err # Ok
             THEN failed(moved.err, moved.attempted)
             ELSE stored(moved.token_accounts, moved.attempted)
        ELSE stored(ta, FALSE)

\* The instruction: the accounts of CcipReceive (lines 300-346, those of the
\* modular program), the handler, the write-back of MessagesStorage.
CcipReceiveTokens(authority, is_signer, offramp_program, allowed_offramp, message, token_amounts, remaining) ==
    /\ CountFollowed(messages_storage.message_count)
    /\ LET acc == CcipReceiveAccounts(authority, is_signer, offramp_program,
                                      allowed_offramp, message)
           h == ccip_receive(messages_storage, token_accounts, message,
                    token_amounts, remaining,
                    IF is_signer THEN {authority} ELSE {}, now)
           r == ccip_receive_entry(acc, h, messages_storage, token_accounts)
           c == [NoCall EXCEPT !.op = "ccip_receive", !.err = r.err,
                    !.authority = authority, !.is_signer = is_signer,
                    !.offramp_program = offramp_program,
                    !.allowed_offramp = allowed_offramp,
                    !.message = message, !.token_amounts = token_amounts,
                    !.remaining = remaining,
                    !.attempted = r.attempted,
                    !.state_account = StatePda]
       IN  Commit(c, state, r.messages_storage, program_accounts, r.token_accounts)

\* #[derive(Accounts)] GetTokenBalance, lines 408-415: Account<TokenMetadata>
\* at the address derived from its own mint
GetTokenBalanceAccounts(mint) ==
    IF ~token_metadata[mint].exists THEN "AccountNotInitialized" ELSE Ok

\* get_token_balance, lines 249-259: the fields of the metadata account;
\* balance and total_withdrawn are 0 since initialize_token_vault
get_token_balance(tm) ==
    TokenBalanceInfo(tm.mint, 0, tm.total_received, 0, tm.last_updated)

GetTokenBalance(mint) ==
    LET err == GetTokenBalanceAccounts(mint)
        c == [NoCall EXCEPT !.op = "get_token_balance", !.err = err,
                  !.balance_info = IF err = Ok
                                   THEN get_token_balance(token_metadata[mint])
                                   ELSE NoTokenBalanceInfo]
    IN  Commit(c, state, messages_storage, program_accounts, token_accounts)

-----------------------------------------------------------------------------
(* The environment, continued *)

\* A holder sends one token to an account the program controls (the token
\* pool releasing tokens to the vault before the message is delivered).
Deposit(u, to) ==
    LET r == SplTransfer(token_accounts, UserTokenAccount(u), to, Key(u), {Key(u)}, 1)
    IN  /\ Idle
        /\ r.err = Ok
        /\ token_accounts' = r.token_accounts
        /\ token_accounts' # token_accounts
        /\ UNCHANGED <<chainlink_feed, decimal, overflow_checks, token_metadata, bumps, state, messages_storage, program_accounts, router_accounts,
                       now, call, count_seen>>

-----------------------------------------------------------------------------
(* What the callers send *)

\* two senders, each with its message id and its source chain; every
\* combination of data and token list
Origins == {<<1, 1, <<1>>>>, <<2, 2, <<2>>>>}

Messages ==
    {Any2SVMMessage(o[1], o[2], o[3], d, t) :
        o \in Origins, d \in Datas, t \in TokenAmountLists}

TokenAmountArgs == {0, 1}

\* the amounts the owner asks to withdraw: up to one above the supply
WithdrawAmounts == 1..(Supply + 1)

\* the lengths of the remaining accounts
RemainingLengths == {0, 1, 4, 5, 6, 10}

\* the five accounts the handler documents, then accounts it does not use
RemainingTemplate(recipient) ==
    <<MintAddress("mintA"), TokenVaultPda("mintA"), TokenVaultAuthorityPda,
      recipient, ProgramAddress(TokenProgram),
      NoAccount, NoAccount, NoAccount, NoAccount, NoAccount>>

RemainingChoices ==
    {SubSeq(RemainingTemplate(UserTokenAccount("mallory")), 1, n) : n \in RemainingLengths}

AuthorityChoices == {AuthorityPda(o) : o \in Offramps}

AllowedOfframpChoices ==
    {AllowedOfframpPda(c, o, r) : c \in Chains, o \in Offramps, r \in Routers}

\* calls that probe the authorization: every combination of authority,
\* signature, offramp and allowlist account, for a token message of each chain
ProbeMessages ==
    {m \in Messages : m.data = <<>> /\ m.token_amounts # <<>>}

ReceiveProbe ==
    \E authority \in AuthorityChoices, is_signer \in BOOLEAN,
       offramp_program \in Offramps, allowed_offramp \in AllowedOfframpChoices,
       message \in ProbeMessages :
        CcipReceive(authority, is_signer, offramp_program, allowed_offramp, message,
                    1, SubSeq(RemainingTemplate(UserTokenAccount("mallory")), 1, 5))

\* calls of an offramp that signs with its own PDA and passes the allowlist
\* account derived for the message under the registered router
ReceiveRelayedWith(messages, token_amounts, remainings) ==
    \E offramp_program \in {"offrampX"}, message \in messages,
       token_amount \in token_amounts, remaining \in remainings :
        CcipReceive(AuthorityPda(offramp_program), TRUE, offramp_program,
                    AllowedOfframpPda(message.source_chain_selector,
                                      offramp_program, state.router),
                    message, token_amount, remaining)

\* every kind of message of chain 1, every token amount and every number of
\* remaining accounts
ReceiveRelayed ==
    ReceiveRelayedWith({m \in Messages : m.source_chain_selector = 1},
                       TokenAmountArgs, RemainingChoices)

\* messages without tokens
ReceivePlain ==
    ReceiveRelayedWith({m \in Messages : m.token_amounts = <<>>}, {0}, {<<>>})

\* the five accounts of a transfer to a recipient
RemainingFive(recipient) == SubSeq(RemainingTemplate(recipient), 1, 5)

\* lists of five remaining accounts in which one role is played by another
\* account: a vault or a recipient that no token program owns, another
\* account as the vault authority (one that did not sign, the signer of the
\* call), another program as the token program, the vault as its own
\* recipient, and a holder's account with the holder as its authority
BinderLists ==
    LET five == RemainingFive(UserTokenAccount("mallory"))
    IN  {[five EXCEPT ![2] = Key("mallory")],
         [five EXCEPT ![4] = Key("mallory")],
         [five EXCEPT ![3] = Key("mallory")],
         [five EXCEPT ![3] = AuthorityPda("offrampX")],
         [five EXCEPT ![5] = ProgramAddress("token_2022")],
         [five EXCEPT ![4] = TokenVaultPda("mintA")],
         [five EXCEPT ![2] = UserTokenAccount("alice"), ![3] = Key("alice")]}

\* calls of the offramp with a token message and such a list
ReceiveBinderProbe ==
    ReceiveRelayedWith({m \in ProbeMessages : m.source_chain_selector = 1},
                       {1}, BinderLists)

\* the accounts a caller passes as `state`: the program's own, an account of
\* another program that names a router, the program's message record, and a
\* wallet
StateAccountChoices ==
    {StatePda, MessagesStoragePda, Key("mallory")} \cup ForeignStates

\* calls of the offramp with each of them, a message without tokens, and the
\* allowlist account of the offramp under each router
ReceiveStateProbe ==
    \E state_account \in StateAccountChoices, offramp_program \in {"offrampX"},
       router \in Routers, is_signer \in BOOLEAN,
       message \in {m \in Messages : m.token_amounts = <<>> /\ m.data # <<>>} :
        CcipReceiveWithState(state_account, AuthorityPda(offramp_program), is_signer,
            offramp_program,
            AllowedOfframpPda(message.source_chain_selector, offramp_program, router),
            message, 0, <<>>)

\* a payload one byte above MAX_MESSAGE_DATA_SIZE
OversizedData == [i \in 1..(MAX_MESSAGE_DATA_SIZE + 1) |-> 0]

OversizedMessages ==
    {Any2SVMMessage(1, 1, <<1>>, OversizedData, t) : t \in TokenAmountLists}

\* calls of the offramp with an oversized payload
ReceiveOversized ==
    ReceiveRelayedWith(OversizedMessages, TokenAmountArgs,
                       {<<>>, RemainingFive(UserTokenAccount("mallory"))})

\* a payload of exactly MAX_MESSAGE_DATA_SIZE bytes
BoundedData == [i \in 1..MAX_MESSAGE_DATA_SIZE |-> 0]

BoundedMessages ==
    {Any2SVMMessage(1, 1, <<1>>, BoundedData, t) : t \in TokenAmountLists}

\* calls of the offramp with the largest payload within the limit
ReceiveBounded ==
    ReceiveRelayedWith(BoundedMessages, TokenAmountArgs,
                       {<<>>, RemainingFive(UserTokenAccount("mallory"))})

\* one token message, sent again and again
ReplayMessage ==
    Any2SVMMessage(1, 1, <<1>>, <<>>, <<[token |-> "mintA", amount |-> 1]>>)

ReceiveReplay == ReceiveRelayedWith({ReplayMessage}, TokenAmountArgs, RemainingChoices)

-----------------------------------------------------------------------------
(* Submitted transactions.  A transaction is submitted when the previous   *)
(* one has returned.                                                       *)

SubmitInitialize ==
    /\ Idle
    /\ \E u \in Users, is_signer \in BOOLEAN, r \in Routers :
            Initialize(Key(u), is_signer, r)

SubmitInitializeIfNeeded ==
    /\ Idle
    /\ \E u \in Users, is_signer \in BOOLEAN, r \in Routers :
            InitializeIfNeeded(Key(u), is_signer, r)

SubmitInitializeTokenVault ==
    /\ Idle
    /\ \E u \in Users, is_signer \in BOOLEAN, m \in Mints :
            InitializeTokenVault(Key(u), is_signer, m)

SubmitReceiveProbe == Idle /\ ReceiveProbe

SubmitReceiveRelayed == Idle /\ ReceiveRelayed

SubmitReceivePlain == Idle /\ ReceivePlain

SubmitReceiveBinderProbe == Idle /\ ReceiveBinderProbe

SubmitReceiveOversized == Idle /\ ReceiveOversized

SubmitReceiveBounded == Idle /\ ReceiveBounded

SubmitReceiveReplay == Idle /\ ReceiveReplay

SubmitReceiveStateProbe == Idle /\ ReceiveStateProbe

\* each router registers the offramp for a source chain
EnvRoutersAddOfframp ==
    /\ Idle
    /\ \E r \in Routers, c \in Chains, o \in {"offrampX"} :
            RouterAddOfframp(r, c, o)

\* the six accounts of one token of lib.rs, for a mint handle and a recipient
TokenGroup(mint, recipient) ==
    <<MintAddress(mint), TokenMetadataPda("mintA"), TokenVaultPda("mintA"),
      TokenVaultAuthorityPda, recipient, ProgramAddress(TokenProgram)>>

\* one token with exactly one of metadata, vault and recipient of another
\* mint than the handle
OneOfAnotherMint ==
    LET group(mint, vault, recipient) ==
            <<MintAddress(mint), TokenMetadataPda("mintA"), vault,
              TokenVaultAuthorityPda, recipient, ProgramAddress(TokenProgram)>>
    IN  {group("mintB", OtherMintTokenAccount, OtherMintTokenAccount),
         group("mintA", OtherMintTokenAccount, UserTokenAccount("mallory")),
         group("mintA", TokenVaultPda("mintA"), OtherMintTokenAccount)}

\* the lists of token amounts of lib.rs
TokenAmountsArgs == {<<>>, <<0>>, <<1>>, <<0, 1>>, <<1, 1>>}

\* remaining accounts for no token, for one token (of the vault's mint, one
\* account short, with the handle of another mint) and for two tokens: both
\* of the vault's mint, or the second with the handle of another mint or
\* with a wallet for its recipient
RemainingTokensChoices ==
    LET good == TokenGroup("mintA", UserTokenAccount("mallory"))
        other_mint == TokenGroup("mintB", UserTokenAccount("mallory"))
        wallet == TokenGroup("mintA", Key("mallory"))
    IN  {<<>>, good, SubSeq(good, 1, 5), other_mint, good \o good,
         good \o other_mint, good \o wallet} \cup OneOfAnotherMint

\* calls of the offramp to lib.rs
ReceiveTokens ==
    \E offramp_program \in {"offrampX"},
       message \in {m \in Messages : m.source_chain_selector = 1},
       token_amounts \in TokenAmountsArgs, remaining \in RemainingTokensChoices :
        CcipReceiveTokens(AuthorityPda(offramp_program), TRUE, offramp_program,
            AllowedOfframpPda(message.source_chain_selector, offramp_program,
                              state.router),
            message, token_amounts, remaining)

SubmitReceiveTokens == Idle /\ ReceiveTokens

\* initialize of lib.rs, sent by one user for one router
SubmitInitializeOnce ==
    /\ Idle
    /\ \E is_signer \in BOOLEAN : Initialize(Key("alice"), is_signer, "routerA")

SubmitInitializeTokenVaultMetadata ==
    /\ Idle
    /\ \E u \in Users, is_signer \in BOOLEAN, m \in Mints :
            InitializeTokenVaultMetadata(Key(u), is_signer, m)

SubmitGetLatestMessage == Idle /\ GetLatestMessage

SubmitGetTokenBalance == Idle /\ \E m \in Mints : GetTokenBalance(m)

SubmitWithdrawTokens ==
    /\ Idle
    /\ \E u \in Users, is_signer \in BOOLEAN,
          from \in {AdminTokenAccount, TokenVaultPda("mintA")},
          to \in {UserTokenAccount("mallory")}, decimals \in {9, 0} :
            WithdrawTokens(Key(u), is_signer, from, to, "mintA",
                           ProgramAddress(TokenProgram), 1, decimals)

\* withdrawals with every combination of signer, source, destination, mint,
\* token program and amount
SubmitWithdrawProbe ==
    /\ Idle
    /\ \E u \in Users, is_signer \in BOOLEAN,
          from \in {AdminTokenAccount, TokenVaultPda("mintA"), OtherMintTokenAccount},
          to \in {UserTokenAccount("mallory"), OtherMintTokenAccount},
          mint \in AllMints,
          token_program \in {ProgramAddress(TokenProgram), ProgramAddress("token_2022")},
          amount \in WithdrawAmounts :
            WithdrawTokens(Key(u), is_signer, from, to, mint, token_program,
                           amount, MintDecimals(mint))

SubmitCloseStorage ==
    /\ Idle
    /\ \E u \in Users, is_signer \in BOOLEAN : CloseStorage(Key(u), is_signer)

\* the router registers an offramp for a source chain
EnvRouterAddOfframp ==
    /\ Idle
    /\ \E r \in {"routerA"}, c \in Chains, o \in {"offrampX"} :
            RouterAddOfframp(r, c, o)

\* a token holder sends a token to the vault
EnvDeposit ==
    /\ Idle
    /\ \E u \in {"alice"} : Deposit(u, TokenVaultPda("mintA"))

\* a token holder sends a token to the token account of the token admin
EnvDepositAdmin ==
    /\ Idle
    /\ \E u \in {"alice"} : Deposit(u, AdminTokenAccount)

EnvTick == Idle /\ Tick

-----------------------------------------------------------------------------
(* The modular program: the four instructions of instructions/mod.rs *)

Next ==
    \/ SubmitInitialize
    \/ SubmitInitializeTokenVault
    \/ SubmitReceiveProbe
    \/ SubmitReceiveRelayed
    \/ SubmitReceiveBinderProbe
    \/ SubmitGetLatestMessage
    \/ EnvRouterAddOfframp
    \/ EnvDeposit
    \/ EnvTick
    \/ Return

Spec == Init /\ [][Next]_vars

\* The modular program with payloads above MAX_MESSAGE_DATA_SIZE among the
\* messages the offramp relays.
NextSized ==
    \/ SubmitInitialize
    \/ SubmitInitializeTokenVault
    \/ SubmitReceiveRelayed
    \/ SubmitReceiveOversized
    \/ SubmitGetLatestMessage
    \/ EnvRouterAddOfframp
    \/ EnvDeposit
    \/ EnvTick
    \/ Return

SpecSized == Init /\ [][NextSized]_vars

\* The program with payloads at the limit, its storage created by
\* initialize (initialize.rs) or by the init_if_needed of context.rs

NextBounded ==
    \/ SubmitInitialize
    \/ SubmitInitializeIfNeeded
    \/ SubmitInitializeTokenVault
    \/ SubmitReceiveBounded
    \/ SubmitGetLatestMessage
    \/ EnvRouterAddOfframp
    \/ EnvDeposit
    \/ Return

SpecBounded == Init /\ [][NextBounded]_vars

\* The modular program with callers that choose the account passed as
\* `state`, and with both routers keeping an allowlist.
NextState ==
    \/ SubmitInitialize
    \/ SubmitReceiveStateProbe
    \/ SubmitGetLatestMessage
    \/ EnvRoutersAddOfframp
    \/ EnvTick
    \/ Return

SpecState == Init /\ [][NextState]_vars

-----------------------------------------------------------------------------
(* The modular program late in its life *)

\* The program after initialize (by alice, for routerA) and u64::MAX - 1
\* accepted messages, the last of them a message without tokens.  The build
\* of the program has overflow checks or has none.
InitLate ==
    /\ state = BaseState(Key("alice"), "routerA")
    /\ messages_storage =
           MessagesStorage(InitSpace, 0, U64_MAX - 1,
               ReceivedMessage(Any2SVMMessage(1, 1, <<1>>, <<7>>, <<>>),
                               ArbitraryMessaging, 0))
    /\ program_accounts = {ExternalExecutionConfigPda}
    /\ router_accounts = {RouterConfigPda(r) : r \in Routers}
    /\ token_accounts =
           [a \in TokenAddresses |->
               IF a = UserTokenAccount("alice")
               THEN TokenAccount("mintA", Key("alice"), Supply)
               ELSE IF a \in UserTokenAccounts
               THEN TokenAccount("mintA", Key(a.key), 0)
               ELSE IF a = AdminTokenAccount
               THEN TokenAccount("mintA", TokenAdminPda, 0)
               ELSE IF a = OtherMintTokenAccount
               THEN TokenAccount("mintB", TokenAdminPda, 0)
               ELSE NoTokenAccount]
    /\ now = 0
    /\ call = NoCall
    /\ count_seen = U64_MAX - 1
    /\ token_metadata = [m \in Mints |-> NoTokenMetadata]
    /\ bumps = [m \in Mints |-> "canonical"]
    /\ overflow_checks \in BOOLEAN
    /\ chainlink_feed = NoFeed
    /\ decimal = NoDecimal

NextLate ==
    \/ SubmitInitializeTokenVault
    \/ SubmitReceiveRelayed
    \/ SubmitGetLatestMessage
    \/ EnvRouterAddOfframp
    \/ EnvDeposit
    \/ EnvTick
    \/ Return

SpecLate == InitLate /\ [][NextLate]_vars

-----------------------------------------------------------------------------
(* The program with one message delivered more than once *)

\* After initialize by alice for routerA and initialize_token_vault, the
\* router's allowlist entry for chain 1 made and the vault holding more
\* tokens than one delivery moves.
InitReplay ==
    /\ state = BaseState(Key("alice"), "routerA")
    /\ messages_storage = ZeroedMessagesStorage(InitSpace)
    /\ program_accounts = {ExternalExecutionConfigPda}
    /\ router_accounts = {RouterConfigPda(r) : r \in Routers}
                             \cup {AllowedOfframpPda(1, "offrampX", "routerA")}
    /\ token_accounts =
           [a \in TokenAddresses |->
               IF a = TokenVaultPda("mintA")
               THEN TokenAccount("mintA", TokenVaultAuthorityPda, Supply + 1)
               ELSE IF a \in UserTokenAccounts
               THEN TokenAccount("mintA", Key(a.key), 0)
               ELSE IF a = AdminTokenAccount
               THEN TokenAccount("mintA", TokenAdminPda, 0)
               ELSE IF a = OtherMintTokenAccount
               THEN TokenAccount("mintB", TokenAdminPda, 0)
               ELSE NoTokenAccount]
    /\ now = 0
    /\ call = NoCall
    /\ count_seen = 0
    /\ token_metadata = [m \in Mints |-> NoTokenMetadata]
    /\ bumps = [m \in Mints |-> "canonical"]
    /\ overflow_checks = TRUE
    /\ chainlink_feed = NoFeed
    /\ decimal = NoDecimal

NextReplay ==
    \/ SubmitReceiveReplay
    \/ SubmitGetLatestMessage
    \/ EnvTick
    \/ Return

SpecReplay == InitReplay /\ [][NextReplay]_vars

-----------------------------------------------------------------------------
(* The monolithic program of lib.rs *)

\* Before initialize; the program id and the mint decide what the metadata
\* seeds give with the bump of the state PDA.
InitTokens ==
    /\ state = NoBaseState
    /\ messages_storage = NoMessagesStorage
    /\ program_accounts = {}
    /\ router_accounts = {RouterConfigPda(r) : r \in Routers}
    /\ token_accounts =
           [a \in TokenAddresses |->
               IF a = UserTokenAccount("alice")
               THEN TokenAccount("mintA", Key("alice"), Supply)
               ELSE IF a \in UserTokenAccounts
               THEN TokenAccount("mintA", Key(a.key), 0)
               ELSE IF a = AdminTokenAccount
               THEN TokenAccount("mintA", TokenAdminPda, 0)
               ELSE IF a = OtherMintTokenAccount
               THEN TokenAccount("mintB", TokenAdminPda, 0)
               ELSE NoTokenAccount]
    /\ now = 0
    /\ call = NoCall
    /\ count_seen = 0
    /\ token_metadata = [m \in Mints |-> NoTokenMetadata]
    /\ bumps \in [Mints -> BumpOutcomes]
    /\ overflow_checks = TRUE
    /\ chainlink_feed = NoFeed
    /\ decimal = NoDecimal

NextTokens ==
    \/ SubmitInitializeOnce
    \/ SubmitInitializeTokenVaultMetadata
    \/ SubmitReceiveTokens
    \/ SubmitGetLatestMessage
    \/ SubmitGetTokenBalance
    \/ EnvRouterAddOfframp
    \/ EnvDeposit
    \/ EnvTick
    \/ Return

SpecTokens == InitTokens /\ [][NextTokens]_vars

-----------------------------------------------------------------------------
(* All the instructions of the repository's iterations over one account    *)
(* world, with plain messages                                              *)

NextAll ==
    \/ SubmitInitialize
    \/ SubmitInitializeIfNeeded
    \/ SubmitInitializeTokenVault
    \/ SubmitReceivePlain
    \/ SubmitGetLatestMessage
    \/ SubmitWithdrawTokens
    \/ SubmitCloseStorage
    \/ EnvRouterAddOfframp
    \/ EnvDeposit
    \/ EnvDepositAdmin
    \/ EnvTick
    \/ Return

SpecAll == Init /\ [][NextAll]_vars

-----------------------------------------------------------------------------
(* The iteration of context.rs with the token vaults of the modular        *)
(* program: initialize, initialize_token_vault and withdraw_tokens         *)

NextWithdraw ==
    \/ SubmitInitializeIfNeeded
    \/ SubmitInitializeTokenVault
    \/ SubmitWithdrawProbe
    \/ EnvDeposit
    \/ EnvDepositAdmin
    \/ Return

SpecWithdraw == Init /\ [][NextWithdraw]_vars

-----------------------------------------------------------------------------
(* chainlink_solana_demo: programs/chainlink_solana_demo/src/lib.rs *)

\* i128::MIN and i128::MAX, at the width of the model
I128_MIN == -(2 ^ (ValueBits - 1))
I128_MAX == 2 ^ (ValueBits - 1) - 1

\* A string is the sequence of its characters.
DigitChars == <<"0", "1", "2", "3", "4", "5", "6", "7", "8", "9">>

\* the decimal digits of a natural number, without leading zeros
RECURSIVE NatToString(_)
NatToString(n) ==
    IF n < 10 THEN <<DigitChars[n + 1]>>
    ELSE NatToString(n \div 10) \o <<DigitChars[(n % 10) + 1]>>

\* i128::to_string
to_string(n) == IF n < 0 THEN <<"-">> \o NatToString(-n) ELSE NatToString(n)

\* i128::abs: the absolute value of i128::MIN is no i128; a build with
\* overflow checks panics, one without them returns i128::MIN
abs(n) ==
    IF n = I128_MIN
    THEN [panics |-> overflow_checks, value |-> I128_MIN]
    ELSE [panics |-> FALSE, value |-> IF n < 0 THEN -n ELSE n]

\* "0".repeat(k)
Zeros(k) == [i \in 1..k |-> "0"]

\* String::insert and String::insert_str at a position counted from 0
insert_str(str, idx, piece) ==
    SubSeq(str, 1, idx) \o piece \o SubSeq(str, idx + 1, Len(str))

\* (zero decimals handled like any other number of decimals)
DisplayAlwaysScaled(value, decimals) ==
    LET is_negative == value < 0
        a == abs(value)
        digits == to_string(a.value)
        scaled_val ==
            IF Len(digits) <= decimals
            THEN insert_str(insert_str(digits, 0, Zeros(decimals - Len(digits))),
                            0, <<"0", ".">>)
            ELSE insert_str(digits, Len(digits) - decimals, <<".">>)
    IN  IF a.panics THEN [panics |-> TRUE, out |-> <<>>]
        ELSE [panics |-> FALSE,
              out |-> IF is_negative THEN insert_str(scaled_val, 0, <<"-">>)
                      ELSE scaled_val]

\* (a small value gets its "0." and no zeros after it)
DisplayUnpadded(value, decimals) ==
    LET is_negative == value < 0
        a == abs(value)
        digits == to_string(a.value)
        scaled_val ==
            IF Len(digits) <= decimals
            THEN insert_str(digits, 0, <<"0", ".">>)
            ELSE insert_str(digits, Len(digits) - decimals, <<".">>)
    IN  IF decimals = 0 THEN [panics |-> FALSE, out |-> to_string(value)]
        ELSE IF a.panics THEN [panics |-> TRUE, out |-> <<>>]
        ELSE [panics |-> FALSE,
              out |-> IF is_negative THEN insert_str(scaled_val, 0, <<"-">>)
                      ELSE scaled_val]

\* impl Display for Decimal, lines 71-97: what is written, or the panic
Display(value, decimals) ==
    LET is_negative == value < 0
        a == abs(value)
        digits == to_string(a.value)
        scaled_val ==
            IF Len(digits) <= decimals
            THEN insert_str(insert_str(digits, 0, Zeros(decimals - Len(digits))),
                            0, <<"0", ".">>)
            ELSE insert_str(digits, Len(digits) - decimals, <<".">>)
    IN  IF decimals = 0 THEN [panics |-> FALSE, out |-> to_string(value)]
        ELSE IF a.panics THEN [panics |-> TRUE, out |-> <<>>]
        ELSE [panics |-> FALSE,
              out |-> IF is_negative THEN insert_str(scaled_val, 0, <<"-">>)
                      ELSE scaled_val]

\* #[derive(Accounts)] Execute, lines 40-57: user signs; decimal is created
\* (`init`) at the address the caller gives
ExecuteAccounts(is_signer) ==
    IF ~is_signer THEN "AccountNotSigner"
    ELSE IF decimal.exists THEN "AccountAlreadyInUse"
    ELSE Ok

\* execute, lines 13-37: the answer and the decimals of the feed's latest
\* round go into the Decimal account, and the price is logged
Execute(is_signer) ==
    LET acc == ExecuteAccounts(is_signer)
        decimal_print == Display(chainlink_feed.answer, chainlink_feed.decimals)
        err == IF acc # Ok THEN acc
               ELSE IF decimal_print.panics THEN "ProgramFailedToComplete"
               ELSE Ok
    IN  /\ Idle
        /\ call' = [NoCall EXCEPT !.op = "execute", !.err = err,
                                  !.is_signer = is_signer,
                                  !.log = IF err = Ok THEN decimal_print.out ELSE <<>>]
        /\ decimal' = IF err = Ok
                      THEN Decimal(chainlink_feed.answer, chainlink_feed.decimals)
                      ELSE decimal
        /\ UNCHANGED <<state, messages_storage, program_accounts, router_accounts,
                       token_accounts, now, count_seen, token_metadata, bumps,
                       overflow_checks, chainlink_feed>>

SubmitExecute == Idle /\ \E is_signer \in BOOLEAN : Execute(is_signer)

\* the answers and the decimals a feed can hold
Answers == I128_MIN..I128_MAX
FeedDecimals == 0..MaxDecimals

\* Before execute: the feed holds a round, and the build has overflow checks
\* or has none.
InitDemo ==
    /\ state = NoBaseState
    /\ messages_storage = NoMessagesStorage
    /\ program_accounts = {}
    /\ router_accounts = {}
    /\ token_accounts = [a \in TokenAddresses |-> NoTokenAccount]
    /\ now = 0
    /\ call = NoCall
    /\ count_seen = 0
    /\ token_metadata = [m \in Mints |-> NoTokenMetadata]
    /\ bumps = [m \in Mints |-> "canonical"]
    /\ overflow_checks \in BOOLEAN
    /\ chainlink_feed \in {Feed(v, d) : v \in Answers, d \in FeedDecimals}
    /\ decimal = NoDecimal

NextDemo ==
    \/ SubmitExecute
    \/ Return

SpecDemo == InitDemo /\ [][NextDemo]_vars

-----------------------------------------------------------------------------
(* Properties *)

\* the ccip_receive call whose result `call` holds was accepted
Accepted == call.op = "ccip_receive" /\ call.err = Ok

\* the allowlist address of the call's source chain and offramp under the
\* registered router
DerivedAllowedOfframp(c) ==
    AllowedOfframpPda(c.message.source_chain_selector, c.offramp_program, state.router)

\* C1: an accepted ccip_receive was signed by the authority, the authority is
\* the PDA of [external_execution_config, program id] under the supplied
\* offramp, and allowed_offramp is the PDA of [allowed_offramp, the message's
\* chain selector, the offramp] under state.router, created and owned by that
\* router: an entry of another chain, another offramp or another router is
\* never the account of an accepted call.
C1_AcceptedOnlyWhenAuthorized ==
    Accepted =>
        /\ call.is_signer
        /\ call.authority = AuthorityPda(call.offramp_program)
        /\ call.allowed_offramp = DerivedAllowedOfframp(call)
        /\ OwnerOf(call.allowed_offramp) = state.router
        /\ call.allowed_offramp \in router_accounts
        /\ \A c \in Chains, o \in Offramps, r \in Routers :
              call.allowed_offramp = AllowedOfframpPda(c, o, r) =>
                  /\ c = call.message.source_chain_selector
                  /\ o = call.offramp_program
                  /\ r = state.router

\* C1, its case: a message of chain 2 is accepted on the entry of chain 2
C1_Witness ==
    Accepted /\ call.message.source_chain_selector = 2

\* C2: a ccip_receive call in which a check of the authorization fails (the
\* authority did not sign, the authority is not the derived PDA,
\* allowed_offramp is not at the derived address, or it is not owned by
\* state.router) fails and leaves MessagesStorage and every token balance as
\* they were before the call.
C2_AuthFailureChangesNothing ==
    [][ (/\ Idle
         /\ call'.op = "ccip_receive"
         /\ \/ ~call'.is_signer
            \/ ~AuthoritySeedsOk(call'.authority, call'.offramp_program)
            \/ ~AllowedOfframpSeedsOk(call'.allowed_offramp, call'.message,
                                      call'.offramp_program)
            \/ ~AllowedOfframpOwnerOk(call'.allowed_offramp))
        => /\ call'.err # Ok
           /\ messages_storage' = messages_storage
           /\ token_accounts' = token_accounts ]_vars

\* C2, its case: an unauthorized call was made on a record that holds
\* messages while the vault held the tokens the call asked to move
C2_Witness ==
    /\ call.op = "ccip_receive"
    /\ call.err \in {"AccountNotSigner", "ConstraintSeeds:authority",
                     "ConstraintSeeds:allowed_offramp", "InvalidCaller"}
    /\ messages_storage.message_count > 0
    /\ token_accounts[TokenVaultPda("mintA")].amount > 0
    /\ call.token_amount > 0

\* the program is initialized and the router has not created the allowlist
\* account of the call's source chain and offramp
AllowlistEntryMissing ==
    /\ call.op = "ccip_receive"
    /\ state.exists /\ messages_storage.exists
    /\ DerivedAllowedOfframp(call) \notin router_accounts

\* C3 as stated: when the router never created the allowlist account, the
\* call fails with InvalidCaller and with no other error.
C3_AlwaysInvalidCaller ==
    AllowlistEntryMissing => call.err = "InvalidCaller"

\* C3, amended: when the router never created the allowlist account the call
\* always fails; it fails with InvalidCaller exactly when the authority signed,
\* the authority is the derived PDA and the account passed as allowed_offramp
\* is at the derived address; a call whose authority did not sign fails with
\* AccountNotSigner, and one with another authority or another
\* allowed_offramp address fails with ConstraintSeeds.
C3_InvalidCallerWhenOtherChecksPass ==
    AllowlistEntryMissing =>
        /\ call.err # Ok
        /\ call.err = "InvalidCaller" <=>
              /\ call.is_signer
              /\ call.authority = AuthorityPda(call.offramp_program)
              /\ call.allowed_offramp = DerivedAllowedOfframp(call)
        /\ ~call.is_signer => call.err = "AccountNotSigner"
        /\ (call.is_signer /\ call.authority # AuthorityPda(call.offramp_program))
              => call.err = "ConstraintSeeds:authority"
        /\ (/\ call.is_signer
            /\ call.authority = AuthorityPda(call.offramp_program)
            /\ call.allowed_offramp # DerivedAllowedOfframp(call))
              => call.err = "ConstraintSeeds:allowed_offramp"

\* C3, its case: a signed call of the derived authority with the derived
\* allowlist address, which the router never created
C3_Witness ==
    /\ AllowlistEntryMissing
    /\ call.is_signer
    /\ call.authority = AuthorityPda(call.offramp_program)
    /\ call.allowed_offramp = DerivedAllowedOfframp(call)
    /\ call.err = "InvalidCaller"

\* C4: an accepted ccip_receive, with or without a token transfer, leaves
\* message_count one above what it was before the call.
C4_AcceptedCountsOne ==
    [][ (Idle /\ call'.op = "ccip_receive" /\ call'.err = Ok)
        => messages_storage'.message_count = messages_storage.message_count + 1 ]_vars

\* C4, its case: a second message was accepted and its tokens were moved
C4_Witness ==
    Accepted /\ call.attempted /\ messages_storage.message_count = 2

HoldsMessage(latest, message) ==
    /\ latest.message_id = message.message_id
    /\ latest.data = message.data
    /\ latest.token_amounts = message.token_amounts
    /\ latest.source_chain_selector = message.source_chain_selector
    /\ latest.sender = message.sender

\* C6: latest_message is the message of the most recent accepted call: an
\* accepted ccip_receive replaces it with the fields of its own message and
\* every other step (a rejected call, another instruction) leaves it as it is.
C6_LatestIsLastAccepted ==
    [][ IF Idle /\ call'.op = "ccip_receive" /\ call'.err = Ok
        THEN HoldsMessage(messages_storage'.latest_message, call'.message)
        ELSE messages_storage'.latest_message = messages_storage.latest_message ]_vars

\* C6, its case: after an accepted call a call with another message was
\* rejected
C6_Witness ==
    /\ call.op = "ccip_receive" /\ call.err # Ok
    /\ messages_storage.message_count = 1
    /\ ~HoldsMessage(messages_storage.latest_message, call.message)

\* the table of the message types
MessageTypeTable(data_empty, tokens_empty) ==
    IF data_empty /\ tokens_empty THEN TokenTransfer
    ELSE IF ~data_empty /\ tokens_empty THEN ArbitraryMessaging
    ELSE IF data_empty /\ ~tokens_empty THEN TokenTransfer
    ELSE ProgrammaticTokenTransfer

\* C7: the message type is the table's value for (data empty, token_amounts
\* empty), for every message, and the type an accepted call stores is that
\* value for every token_amount argument, every list of remaining accounts and
\* every stored state.
C7_MessageTypeTable ==
    /\ \A m \in Messages :
          MessageTypeOf(m) = MessageTypeTable(m.data = <<>>, m.token_amounts = <<>>)
    /\ Accepted =>
          messages_storage.latest_message.message_type
              = MessageTypeTable(call.message.data = <<>>,
                                 call.message.token_amounts = <<>>)

\* C7, its case: a message with data and tokens accepted with token_amount 0
\* and no remaining accounts on a record that held a message
C7_Witness ==
    /\ Accepted
    /\ call.message.data # <<>> /\ call.message.token_amounts # <<>>
    /\ call.token_amount = 0 /\ call.remaining = <<>>
    /\ messages_storage.message_count = 2

\* the accounts of the ccip_receive call in `call` pass the validation
\* (ccip_receive changes none of the accounts the validation reads)
AuthorizedCall ==
    /\ call.op = "ccip_receive"
    /\ CcipReceiveAccounts(call.authority, call.is_signer, call.offramp_program,
                           call.allowed_offramp, call.message) = Ok

\* the message of the call carries tokens by its type
TokenMessage(c) ==
    MessageTypeTable(c.message.data = <<>>, c.message.token_amounts = <<>>)
        \in {TokenTransfer, ProgrammaticTokenTransfer}

\* C8 as stated: in an authorized call the transfer is attempted exactly when
\* the token_amount argument is not zero.
C8_TransferIffNonzeroAmount ==
    AuthorizedCall => (call.attempted <=> call.token_amount # 0)

\* C8, amended: in an authorized call the transfer is attempted exactly when
\* token_amount is not zero, the message type is TokenTransfer or
\* ProgrammaticTokenTransfer, and there are exactly 5 remaining accounts.  A
\* call with a nonzero token_amount and a message of type ArbitraryMessaging
\* is accepted without a transfer; one with another number of remaining
\* accounts fails before the transfer.
C8_TransferIffBranchAndAccounts ==
    AuthorizedCall =>
        /\ call.attempted <=>
              /\ call.token_amount # 0
              /\ TokenMessage(call)
              /\ Len(call.remaining) = 5
        /\ (call.token_amount # 0 /\ ~TokenMessage(call)) =>
              (call.err = Ok /\ ~call.attempted)

\* C8, its case: a data message accepted with token_amount 1, all five
\* accounts of a transfer at hand and tokens in the vault
C8_Witness ==
    /\ AuthorizedCall
    /\ call.token_amount = 1 /\ ~TokenMessage(call)
    /\ Len(call.remaining) = 5
    /\ token_accounts[TokenVaultPda("mintA")].amount > 0
    /\ call.err = Ok /\ ~call.attempted

\* C9: an authorized call with token_amount 0 succeeds for every number of
\* remaining accounts, attempts no transfer, moves no token, stores its
\* message and adds one to message_count.
C9_ZeroAmountSkipsAccounts ==
    [][ (/\ Idle
         /\ call'.op = "ccip_receive"
         /\ call'.token_amount = 0
         /\ CcipReceiveAccounts(call'.authority, call'.is_signer,
                                call'.offramp_program, call'.allowed_offramp,
                                call'.message) = Ok)
        => /\ call'.err = Ok
           /\ ~call'.attempted
           /\ token_accounts' = token_accounts
           /\ HoldsMessage(messages_storage'.latest_message, call'.message)
           /\ messages_storage'.message_count = messages_storage.message_count + 1
      ]_vars

\* C9, its case: a token message accepted with token_amount 0 and 10
\* remaining accounts
C9_Witness ==
    /\ Accepted
    /\ call.token_amount = 0 /\ Len(call.remaining) = 10
    /\ call.message.token_amounts # <<>>

\* C10: in an authorized call that takes the transfer branch (token_amount
\* above 0, message type TokenTransfer or ProgrammaticTokenTransfer) the
\* error is InvalidRemainingAccounts exactly when the number of remaining
\* accounts is not 5, and the transfer is attempted exactly when it is 5.
C10_FiveRemainingAccounts ==
    (AuthorizedCall /\ call.token_amount > 0 /\ TokenMessage(call)) =>
        /\ call.err = "InvalidRemainingAccounts" <=> Len(call.remaining) # 5
        /\ call.attempted <=> Len(call.remaining) = 5

\* C10, its case: a transfer asked for with 6 remaining accounts
C10_Witness ==
    /\ AuthorizedCall /\ call.token_amount > 0 /\ TokenMessage(call)
    /\ Len(call.remaining) = 6
    /\ call.err = "InvalidRemainingAccounts"

\* the call c, made in the current state, passes the account checks of
\* CcipReceive
AuthorizedIn(c) ==
    /\ c.op = "ccip_receive"
    /\ CcipReceiveAccounts(c.authority, c.is_signer, c.offramp_program, c.allowed_offramp, c.message) = Ok

\* ... and takes the transfer branch with five remaining accounts
ReachesTransfer(c) ==
    /\ AuthorizedIn(c)
    /\ c.token_amount > 0 /\ TokenMessage(c)
    /\ Len(c.remaining) = 5

\* the step leaves the program's accounts and every token balance as they were
NothingCommitted ==
    /\ state' = state
    /\ messages_storage' = messages_storage
    /\ token_accounts' = token_accounts

\* the vault or the recipient of the list is not owned by the program that
\* the list names as the token program
TokenOwnerMismatch(c) ==
    \/ ProgramAddress(OwnerOf(c.remaining[2])) # c.remaining[5]
    \/ ProgramAddress(OwnerOf(c.remaining[4])) # c.remaining[5]

\* C11 as stated: when the vault or the recipient is owned by another program
\* than the supplied token program, the call fails with
\* InvalidTokenAccountOwner and no transfer is attempted.
C11_OwnerCheckedBeforeTransfer ==
    [][ (Idle /\ ReachesTransfer(call') /\ TokenOwnerMismatch(call'))
        => (call'.err = "InvalidTokenAccountOwner" /\ ~call'.attempted)
      ]_vars

\* C11, amended: ccip_receive compares no owner and never raises
\* InvalidTokenAccountOwner.  When the vault or the recipient is not owned by
\* the supplied token program, the transfer is attempted and it is the
\* transfer that fails: with InvalidAccountData when the SPL token program
\* is given an account it does not own, with MissingAccount when the
\* supplied program is not the SPL token program.  The call fails and
\* commits nothing.
C11_OwnerMismatchFailsInTransfer ==
    [][ (Idle /\ ReachesTransfer(call') /\ TokenOwnerMismatch(call'))
        => /\ call'.attempted
           /\ call'.err \in {"InvalidAccountData", "MissingAccount"}
           /\ NothingCommitted
      ]_vars

\* C11, its case: a transfer asked for out of an account that the token
\* program does not own, while the vault holds tokens
C11_Witness ==
    /\ AuthorizedCall /\ call.token_amount > 0 /\ Len(call.remaining) = 5
    /\ call.remaining[2] = Key("mallory")
    /\ call.remaining[5] = ProgramAddress(TokenProgram)
    /\ token_accounts[TokenVaultPda("mintA")].amount > 0
    /\ call.attempted /\ call.err = "InvalidAccountData"

\* the third account of the list is not the PDA of [token_vault]
WrongVaultAuthority(c) == c.remaining[3] # TokenVaultAuthorityPda

\* the third account of the list is the token authority of the source
\* account and has signed the call
OrderedByItsAuthority(c) ==
    /\ IsTokenAccount(token_accounts, c.remaining[2])
    /\ token_accounts[c.remaining[2]].authority = c.remaining[3]
    /\ c.is_signer /\ c.remaining[3] = c.authority

\* with the third account left aside, the list is one the token program
\* carries out a transfer of the program's vault for
VaultTransferOtherwiseValid(c) ==
    /\ c.remaining[2] = TokenVaultPda("mintA")
    /\ c.remaining[5] = ProgramAddress(TokenProgram)
    /\ IsTokenAccount(token_accounts, c.remaining[2])
    /\ IsTokenAccount(token_accounts, c.remaining[4])
    /\ token_accounts[c.remaining[2]].amount >= c.token_amount
    /\ token_accounts[c.remaining[2]].mint = token_accounts[c.remaining[4]].mint

\* C12 as stated: a call with another account than the PDA of [token_vault]
\* in position 3 is rejected with no transfer attempted.
C12_VaultAuthorityCheckedBeforeTransfer ==
    [][ (Idle /\ ReachesTransfer(call') /\ WrongVaultAuthority(call'))
        => (call'.err # Ok /\ ~call'.attempted)
      ]_vars

\* C12, amended: ccip_receive does not compare position 3 with the PDA of
\* [token_vault]; it hands the account to the transfer as its authority.  A
\* call with another account there, one that is not the signing token
\* authority of the source account, attempts the transfer and the transfer
\* fails, so the call fails with the transfer's error and commits nothing;
\* for the program's vault and an otherwise valid list the error is the
\* token program's OwnerMismatch.
C12_WrongAuthorityFailsInTransfer ==
    [][ (/\ Idle /\ ReachesTransfer(call') /\ WrongVaultAuthority(call')
         /\ ~OrderedByItsAuthority(call'))
        => /\ call'.attempted
           /\ call'.err \notin {Ok, "InvalidRemainingAccounts"}
           /\ NothingCommitted
           /\ VaultTransferOtherwiseValid(call') => call'.err = "OwnerMismatch"
      ]_vars

\* C12, its case: the signer of the call in the place of the vault
\* authority, for a funded vault and an existing recipient
C12_Witness ==
    /\ AuthorizedCall /\ call.token_amount > 0 /\ Len(call.remaining) = 5
    /\ call.remaining[3] = call.authority
    /\ VaultTransferOtherwiseValid(call)
    /\ call.attempted /\ call.err = "OwnerMismatch"

\* what the token program answers to the transfer that the call c asks for
\* in the current state
TransferOf(c) ==
    TokenTransferCpi(token_accounts, c.remaining[5], c.remaining[2], c.remaining[4],
        c.remaining[3],
        (IF c.is_signer THEN {c.authority} ELSE {}) \cup {TokenVaultAuthorityPda},
        c.token_amount)

\* C14: when the transfer sub-call of an authorized ccip_receive fails, the
\* call fails with the transfer's error and commits nothing: BaseState,
\* message_count, last_updated, latest_message and every token balance are
\* what they were before the call; a failed call in which a transfer was
\* attempted has attempted it once and left nothing behind.
C14_FailedTransferCommitsNothing ==
    [][ /\ (Idle /\ ReachesTransfer(call') /\ TransferOf(call').err # Ok)
            => /\ call'.err = TransferOf(call').err
               /\ call'.attempted
               /\ NothingCommitted
        /\ (Idle /\ call'.op = "ccip_receive" /\ call'.attempted /\ call'.err # Ok)
            => NothingCommitted
      ]_vars

\* C14, its case: a transfer out of an empty vault after a message was stored
C14_Witness ==
    /\ AuthorizedCall /\ call.attempted
    /\ call.err = "InsufficientFunds"
    /\ call.remaining[2] = TokenVaultPda("mintA")
    /\ token_accounts[TokenVaultPda("mintA")].exists
    /\ messages_storage.message_count = 1

\* the tokens of all accounts together
RECURSIVE SumAmounts(_, _)
SumAmounts(ta, addresses) ==
    IF addresses = {} THEN 0
    ELSE LET a == CHOOSE x \in addresses : TRUE
         IN  ta[a].amount + SumAmounts(ta, addresses \ {a})

\* the step is an accepted call that went through the transfer
AcceptedTransfer ==
    Idle /\ ReachesTransfer(call') /\ call'.err = Ok

\* the count goes up by one and an empty payload is recorded as TokenTransfer
CountedAndTyped ==
    /\ messages_storage'.message_count = messages_storage.message_count + 1
    /\ call'.message.data = <<>> =>
           messages_storage'.latest_message.message_type = TokenTransfer

\* C15 as stated: after an accepted ccip_receive that transfers a > 0, the
\* custody account holds a less, the recipient account holds a more,
\* message_count is one more, and an empty payload is recorded as
\* TokenTransfer.
C15_AcceptedTransferMovesAmount ==
    [][ AcceptedTransfer
        => /\ token_accounts'[call'.remaining[2]].amount =
                  token_accounts[call'.remaining[2]].amount - call'.token_amount
           /\ token_accounts'[call'.remaining[4]].amount =
                  token_accounts[call'.remaining[4]].amount + call'.token_amount
           /\ CountedAndTyped
      ]_vars

\* C15, amended: the same when the recipient account is another account than
\* the custody account; when the list names the custody account as its own
\* recipient the call is accepted and counted as well, and no balance
\* changes.  The sum of all balances is conserved, and no third account
\* changes, in both cases.
C15_AcceptedTransferMovesAmountToAnother ==
    [][ AcceptedTransfer
        => /\ call'.remaining[4] # call'.remaining[2] =>
                 /\ token_accounts'[call'.remaining[2]].amount =
                        token_accounts[call'.remaining[2]].amount - call'.token_amount
                 /\ token_accounts'[call'.remaining[4]].amount =
                        token_accounts[call'.remaining[4]].amount + call'.token_amount
           /\ call'.remaining[4] = call'.remaining[2] => token_accounts' = token_accounts
           /\ \A a \in TokenAddresses \ {call'.remaining[2], call'.remaining[4]} :
                  token_accounts'[a] = token_accounts[a]
           /\ SumAmounts(token_accounts', TokenAddresses) =
                  SumAmounts(token_accounts, TokenAddresses)
           /\ CountedAndTyped
      ]_vars

\* C15, its case: a token message with an empty payload accepted, the one
\* token of the vault now in the recipient's account
C15_Witness ==
    /\ Accepted /\ call.attempted /\ call.token_amount = 1
    /\ call.message.data = <<>>
    /\ call.remaining[2] = TokenVaultPda("mintA")
    /\ call.remaining[4] = UserTokenAccount("mallory")
    /\ token_accounts[TokenVaultPda("mintA")].amount = 0
    /\ token_accounts[UserTokenAccount("mallory")].amount = 1
    /\ messages_storage.latest_message.message_type = TokenTransfer

\* C16: an authorized call with a message of non-empty data and no
\* token_amounts is accepted whatever its token_amount argument and its
\* remaining accounts are: the message is recorded with type
\* ArbitraryMessaging, message_count goes up by one, no transfer is attempted
\* and no token moves.
C16_DataMessageAcceptedWithoutTransfer ==
    [][ (/\ Idle /\ AuthorizedIn(call')
         /\ call'.message.data # <<>> /\ call'.message.token_amounts = <<>>)
        => /\ call'.err = Ok
           /\ ~call'.attempted
           /\ token_accounts' = token_accounts
           /\ HoldsMessage(messages_storage'.latest_message, call'.message)
           /\ messages_storage'.latest_message.message_type = ArbitraryMessaging
           /\ messages_storage'.message_count = messages_storage.message_count + 1
      ]_vars

\* C16, its case: a data message accepted with token_amount 1 and the five
\* accounts of a transfer, a token in the vault, after an earlier message
C16_Witness ==
    /\ Accepted /\ ~call.attempted
    /\ call.message.data # <<>> /\ call.message.token_amounts = <<>>
    /\ call.token_amount = 1 /\ Len(call.remaining) = 5
    /\ token_accounts[TokenVaultPda("mintA")].amount = 1
    /\ messages_storage.latest_message.message_type = ArbitraryMessaging
    /\ messages_storage.message_count = 2

\* the payload of the call is above the maximum of state.rs
OversizedPayload(c) == Len(c.message.data) > MAX_MESSAGE_DATA_SIZE

\* C17 as stated: an authorized call whose payload is above
\* MAX_MESSAGE_DATA_SIZE fails before MessagesStorage is written and before
\* any transfer is attempted, and commits nothing.
C17_OversizedRejectedBeforeTransfer ==
    [][ (Idle /\ AuthorizedIn(call') /\ OversizedPayload(call'))
        => /\ call'.err # Ok
           /\ ~call'.attempted
           /\ NothingCommitted
      ]_vars

\* C17, its case: an oversized token message whose transfer was carried out
\* before the call failed on writing MessagesStorage back
C17_Witness ==
    /\ AuthorizedCall /\ OversizedPayload(call)
    /\ call.attempted
    /\ call.err = "AccountDidNotSerialize"
    /\ token_accounts[TokenVaultPda("mintA")].amount = 1

\* C18: get_latest_message changes nothing (BaseState, MessagesStorage, the
\* program's other accounts and every token balance are as before), is
\* answered to any sender without a signature whenever MessagesStorage
\* exists, and returns the stored latest_message as it is: the fields of the
\* last accepted message with the type derived from its data and tokens.
C18_GetLatestMessageReadsOnly ==
    [][ (Idle /\ call'.op = "get_latest_message")
        => /\ NothingCommitted
           /\ program_accounts' = program_accounts
           /\ messages_storage.exists =>
                 /\ call'.err = Ok
                 /\ call'.returned = messages_storage.latest_message
           /\ (messages_storage.exists /\ messages_storage.message_count > 0) =>
                 call'.returned.message_type =
                     MessageTypeTable(call'.returned.data = <<>>,
                                      call'.returned.token_amounts = <<>>)
      ]_vars

\* C18, its case: the second message, one with data and tokens, read back
C18_Witness ==
    /\ call.op = "get_latest_message" /\ call.err = Ok
    /\ messages_storage.message_count = 2
    /\ call.returned.data # <<>> /\ call.returned.token_amounts # <<>>
    /\ call.returned.message_type = ProgrammaticTokenTransfer
    /\ call.returned = messages_storage.latest_message

\* C19: initialize succeeds at most once while the state exists.  A signed
\* initialize on a program whose accounts do not exist sets owner to the
\* signer, router to the argument, message_count to 0 and leaves
\* latest_message empty; every initialize after that, by any signer and with
\* any router, fails and leaves BaseState, MessagesStorage and the token
\* balances unchanged.
C19_InitializeAtMostOnce ==
    [][ (Idle /\ call'.op = "initialize")
        => /\ state.exists =>
                 /\ call'.err # Ok
                 /\ NothingCommitted
                 /\ program_accounts' = program_accounts
           /\ (~state.exists /\ call'.is_signer) =>
                 /\ call'.err = Ok
                 /\ state' = BaseState(call'.authority, call'.router)
                 /\ messages_storage'.exists
                 /\ messages_storage'.message_count = 0
                 /\ messages_storage'.latest_message = DefaultReceivedMessage
           /\ call'.err = Ok => ~state.exists
      ]_vars

\* C19, its case: a second initialize, signed by another user and naming
\* another router, refused after a message was stored
C19_Witness ==
    /\ call.op = "initialize" /\ call.is_signer
    /\ call.err = "AccountAlreadyInUse"
    /\ state.exists
    /\ call.authority # state.owner /\ call.router # state.router
    /\ messages_storage.message_count > 0

\* the instructions that work on the program's initialized accounts
AfterInitializeOps == {"ccip_receive", "get_latest_message", "withdraw_tokens"}

\* C20: nothing is accepted before initialize.  While BaseState and
\* MessagesStorage do not exist, every ccip_receive, get_latest_message and
\* withdraw_tokens fails and changes nothing; MessagesStorage comes to exist
\* only by a successful initialize, with message_count 0 and an empty
\* latest_message; and wherever message_count is above 0 or latest_message
\* is not empty, BaseState and MessagesStorage exist.
C20_NothingBeforeInitialize ==
    [][ /\ (/\ Idle /\ call'.op \in AfterInitializeOps
            /\ ~state.exists /\ ~messages_storage.exists)
            => /\ call'.err # Ok
               /\ NothingCommitted
        /\ (~messages_storage.exists /\ messages_storage'.exists)
            => /\ call'.op \in {"initialize", "initialize_if_needed"}
               /\ call'.err = Ok
               /\ state'.exists
               /\ messages_storage'.message_count = 0
               /\ messages_storage'.latest_message = DefaultReceivedMessage
        /\ (\/ messages_storage'.message_count > 0
            \/ messages_storage'.latest_message # DefaultReceivedMessage)
            => (state'.exists /\ messages_storage'.exists)
      ]_vars

\* C20, its case: a message of the allowed offramp refused because the
\* accounts, closed after an earlier message, do not exist
C20_Witness ==
    /\ call.op = "ccip_receive" /\ call.is_signer
    /\ call.err = "AccountNotInitialized"
    /\ ~state.exists /\ ~messages_storage.exists
    /\ count_seen > 0

\* the errors of the checks of the resource list: the number of accounts,
\* the mints, the derived metadata address
ResourceCheckErrors ==
    {"InvalidRemainingAccounts", "TokenMismatch", "AccountValidationFailed"}

\* the first token of the call that has a nonzero amount
FirstToken(c) ==
    CHOOSE i \in 1..Len(c.token_amounts) :
        c.token_amounts[i] # 0 /\ \A j \in 1..(i - 1) : c.token_amounts[j] = 0

\* C13 as stated: when a check of the resource list fails, MessagesStorage
\* is unchanged and no transfer sub-call was made earlier in the call, also
\* when the failing check is that of a later token of lib.rs.
C13_FailedCheckBeforeAnyTransfer ==
    [][ (Idle /\ AuthorizedIn(call') /\ call'.err \in ResourceCheckErrors)
        => /\ messages_storage' = messages_storage
           /\ ~call'.attempted
      ]_vars

\* C13, amended: when a check of the resource list fails, the call fails
\* and commits nothing: BaseState, MessagesStorage, the token metadata and
\* every balance are as before.  No transfer sub-call was made when the
\* number of accounts is wrong or when the failing check is that of the
\* first token with a nonzero amount.  In lib.rs each token is checked right
\* before its own transfer, so when the failing check belongs to a later
\* token the transfers of the tokens before it were made in the same call,
\* and they are undone with the failed transaction.
C13_FailedCheckCommitsNothing ==
    [][ (Idle /\ AuthorizedIn(call') /\ call'.err \in ResourceCheckErrors)
        => /\ NothingCommitted
           /\ token_metadata' = token_metadata
           /\ call'.err = "InvalidRemainingAccounts" => ~call'.attempted
           /\ call'.err # "InvalidRemainingAccounts" =>
                 (call'.attempted <=>
                     token_checks(token_accounts, call'.remaining, FirstToken(call')) = Ok)
      ]_vars

\* C13, its case: two tokens, the second with the handle of another mint,
\* refused with TokenMismatch after the transfer of the first; the token is
\* back in the vault
C13_Witness ==
    /\ AuthorizedCall
    /\ call.token_amounts = <<1, 1>> /\ Len(call.remaining) = 12
    /\ call.err = "TokenMismatch" /\ call.attempted
    /\ token_accounts[TokenVaultPda("mintA")].amount = 1
    /\ token_accounts[UserTokenAccount("mallory")].amount = 0

-----------------------------------------------------------------------------
(* withdraw_tokens *)

\* the accounts of a withdraw_tokens call: source, destination, mint and
\* token program
WithdrawSource(c) == c.remaining[1]
WithdrawDestination(c) == c.remaining[2]
WithdrawMint(c) == c.remaining[3].key
WithdrawTokenProgram(c) == c.remaining[4]

\* what WithdrawTokens asks of the accounts besides the authority
WithdrawAccountsFit(c) ==
    /\ IsTokenAccount(token_accounts, WithdrawSource(c))
    /\ IsTokenAccount(token_accounts, WithdrawDestination(c))
    /\ token_accounts[WithdrawSource(c)].mint = WithdrawMint(c)
    /\ token_accounts[WithdrawDestination(c)].mint = WithdrawMint(c)
    /\ WithdrawTokenProgram(c) = MintOwner(WithdrawMint(c))
    /\ ProgramAddress(OwnerOf(WithdrawSource(c))) = WithdrawTokenProgram(c)
    /\ ProgramAddress(OwnerOf(WithdrawDestination(c))) = WithdrawTokenProgram(c)
    /\ token_accounts[WithdrawSource(c)].authority = TokenAdminPda

\* C21 as stated: a withdraw_tokens call signed by an identity other than
\* state.owner fails with Unauthorized.
C21_NonOwnerFailsUnauthorized ==
    (/\ call.op = "withdraw_tokens"
     /\ state.exists
     /\ call.is_signer
     /\ call.authority # state.owner)
        => call.err = "Unauthorized"

\* C21, amended: a withdraw_tokens call changes a balance only when it
\* succeeds, and it succeeds only when the authority signed and is
\* state.owner, source and destination are token accounts of the supplied
\* mint, the token program is the owner of the mint, and the authority of the
\* source is the PDA of [TOKEN_ADMIN_SEED].  A call signed by another identity
\* always fails and changes no balance; it fails with Unauthorized exactly
\* when the accounts meet all the other requirements, and with the error of
\* the first account that does not otherwise (the owner is compared last).
C21_WithdrawOnlyByOwner ==
    [][ (Idle /\ call'.op = "withdraw_tokens") =>
          /\ token_accounts' # token_accounts => call'.err = Ok
          /\ call'.err = Ok =>
                /\ state.exists
                /\ call'.is_signer
                /\ call'.authority = state.owner
                /\ WithdrawAccountsFit(call')
          /\ (state.exists /\ call'.is_signer /\ call'.authority # state.owner) =>
                /\ call'.err # Ok
                /\ token_accounts' = token_accounts
                /\ call'.err = "Unauthorized" <=> WithdrawAccountsFit(call') ]_vars

\* C21, its case: another identity signed a withdrawal of tokens the source
\* holds, with accounts that meet every other requirement
C21_Witness ==
    /\ call.op = "withdraw_tokens"
    /\ call.err = "Unauthorized"
    /\ call.is_signer
    /\ call.authority # state.owner
    /\ WithdrawAccountsFit(call)
    /\ token_accounts[WithdrawSource(call)].amount >= call.token_amount

-----------------------------------------------------------------------------
(* the registered router *)

\* the calls a sender can make in the present state that pass the accounts
\* of CcipReceive, each with the router of its allowlist account
PassingCalls ==
    {<<sa, ao, m>> \in StateAccountChoices \X AllowedOfframpChoices \X Messages :
        \E o \in Offramps :
            CcipReceiveAccountsWithState(sa, AuthorityPda(o), TRUE, o, ao, m) = Ok}

\* every call that passes has the program's own state account and an
\* allowlist account under the registered router; a call with another
\* account as `state` has failed
CheckedAgainstRegisteredRouter ==
    /\ \A p \in PassingCalls :
          /\ p[1] = StatePda
          /\ p[2].program = state.router
          /\ OwnerOf(p[2]) = state.router
    /\ Accepted =>
          /\ call.state_account = StatePda
          /\ call.allowed_offramp.program = state.router
    /\ (call.op = "ccip_receive" /\ call.state_account # StatePda) =>
          call.err # Ok

\* the state is written by a successful initialize only, with its router
\* argument; a call with another account as `state` writes nothing
RouterWrittenByInitialize ==
    /\ state' # state =>
          /\ call'.op = "initialize" /\ call'.err = Ok
          /\ state'.router = call'.router
    /\ (call'.op = "ccip_receive" /\ call'.state_account # StatePda) =>
          /\ messages_storage' = messages_storage
          /\ token_accounts' = token_accounts

\* C22: the router of the allowlist check of ccip_receive is the router that
\* the last successful initialize wrote into the BaseState at [STATE_SEED]:
\* the state changes only by a successful initialize, which writes its router
\* argument; every call that passes the accounts, whatever its other accounts
\* and arguments, has the program's own state account and an allowlist
\* account derived under and owned by that router; and a call with another
\* account in the place of `state` fails and changes nothing.
C22_RouterIsThePersistedOne ==
    []CheckedAgainstRegisteredRouter /\ [][RouterWrittenByInitialize]_vars

\* C22, its case: a signed call passed an account of another program as
\* `state`, naming a router other than the registered one, together with the
\* allowlist account that this other router has created for the offramp
C22_Witness ==
    /\ call.op = "ccip_receive"
    /\ call.is_signer
    /\ call.state_account \in ForeignStates
    /\ state.exists
    /\ RouterAt(call.state_account) # state.router
    /\ call.allowed_offramp.program = RouterAt(call.state_account)
    /\ call.allowed_offramp \in router_accounts
    /\ call.err = "AccountOwnedByWrongProgram"

-----------------------------------------------------------------------------
(* the order of the steps of ccip_receive *)

\* the position of a step among the steps of a call, 0 when it was not run
RECURSIVE StepAt(_, _, _)
StepAt(steps, step, i) ==
    IF i > Len(steps) THEN 0
    ELSE IF steps[i] = step THEN i
    ELSE StepAt(steps, step, i + 1)

Ran(c, step) == StepAt(c.steps, step, 1) > 0
Before(c, first, second) == StepAt(c.steps, first, 1) < StepAt(c.steps, second, 1)

\* the order of the steps of the call whose result `call` holds, and what
\* each step left behind
StepsInOrder(c) ==
    /\ c.steps[1] = "accounts"
    /\ c.err \in {"AccountNotSigner", "AccountNotInitialized",
                  "ConstraintSeeds:authority", "ConstraintSeeds:allowed_offramp",
                  "InvalidCaller"} => c.steps = <<"accounts">>
    /\ Len(c.steps) > 1 => c.steps[2] = "classify" /\ AuthorizedIn(c)
    /\ Ran(c, "remaining_accounts") =>
          /\ Before(c, "classify", "remaining_accounts")
          /\ TransferBranch(MessageTypeOf(c.message), c.token_amount)
    /\ Ran(c, "transfer") <=> c.attempted
    /\ Ran(c, "transfer") =>
          /\ Before(c, "remaining_accounts", "transfer")
          /\ Len(c.remaining) = 5
    /\ Ran(c, "store") =>
          /\ c.steps[Len(c.steps)] = "store"
          /\ Ran(c, "transfer") => Before(c, "transfer", "store")
    /\ c.err = Ok => Ran(c, "store")

-----------------------------------------------------------------------------
(* message_count at u64::MAX *)

\* a call that nothing but the count stands against: its accounts pass, and
\* it takes no transfer or a transfer that the token program carries out
OtherwiseAcceptable(c) ==
    /\ AuthorizedIn(c)
    /\ ReachesTransfer(c) =>
          TokenTransferCpi(token_accounts, c.remaining[5], c.remaining[2],
              c.remaining[4], c.remaining[3],
              {c.authority, TokenVaultAuthorityPda}, c.token_amount).err = Ok
    /\ ~ReachesTransfer(c) => ~TransferBranch(MessageTypeOf(c.message), c.token_amount)

\* C24: when message_count is u64::MAX, an otherwise acceptable ccip_receive
\* fails with ArithmeticOverflow and leaves the record unchanged, and
\* message_count never goes from u64::MAX to 0.
C24_OverflowIsAnError ==
    [][ (/\ Idle
         /\ call'.op = "ccip_receive"
         /\ messages_storage.message_count = U64_MAX
         /\ OtherwiseAcceptable(call'))
        => /\ call'.err = "ArithmeticOverflow"
           /\ messages_storage' = messages_storage ]_vars

\* C24, its case: an otherwise acceptable message arrived when the count was
\* u64::MAX and the count is 0 after it
C24_Witness ==
    /\ Accepted
    /\ count_seen = U64_MAX
    /\ messages_storage.message_count = 0

-----------------------------------------------------------------------------
(* the signing identity of the token movements *)

\* a withdraw_tokens call of the owner out of the vault that
\* initialize_token_vault made for the mint, with a destination of the mint,
\* the mint's token program and an amount the vault holds
OwnerWithdrawsFromVault(c) ==
    /\ c.op = "withdraw_tokens"
    /\ state.exists /\ c.is_signer /\ c.authority = state.owner
    /\ WithdrawMint(c) \in Mints
    /\ WithdrawSource(c) = TokenVaultPda(WithdrawMint(c))
    /\ token_accounts[WithdrawSource(c)].exists
    /\ IsTokenAccount(token_accounts, WithdrawDestination(c))
    /\ token_accounts[WithdrawDestination(c)].mint = WithdrawMint(c)
    /\ WithdrawTokenProgram(c) = MintOwner(WithdrawMint(c))
    /\ c.token_amount <= token_accounts[WithdrawSource(c)].amount

\* C25: ccip_receive and withdraw_tokens sign with the same derived identity,
\* so the owner can withdraw from every vault that initialize_token_vault
\* created any amount up to its balance.
C25_OwnerDrainsVault ==
    [][ (Idle /\ OwnerWithdrawsFromVault(call')) =>
          /\ call'.err = Ok
          /\ token_accounts'[WithdrawSource(call')].amount =
                token_accounts[WithdrawSource(call')].amount - call'.token_amount ]_vars

\* C25, its case: the owner asked for a token the vault holds and the call
\* failed on the authority of the vault
C25_Witness ==
    /\ OwnerWithdrawsFromVault(call)
    /\ token_accounts[WithdrawSource(call)].amount > 0
    /\ token_accounts[WithdrawSource(call)].authority = TokenVaultAuthorityPda
    /\ call.err = "ConstraintTokenOwner"

-----------------------------------------------------------------------------
(* close-storage *)

\* C26: BaseState and MessagesStorage exist together; they come to exist by
\* a successful initialize and cease to exist only by a successful
\* close-storage call signed by state.owner, which removes both.  A
\* close-storage call signed by another identity fails with Unauthorized and
\* leaves both accounts as they were.  While the accounts do not exist every
\* ccip_receive fails and writes nothing.
C26_ClosedOnlyByOwner ==
    /\ [](state.exists <=> messages_storage.exists)
    /\ [][ /\ ((state.exists /\ ~state'.exists)
                \/ (messages_storage.exists /\ ~messages_storage'.exists)) =>
                 /\ call'.op = "close_storage" /\ call'.err = Ok
                 /\ call'.is_signer /\ call'.authority = state.owner
                 /\ ~state'.exists /\ ~messages_storage'.exists
           /\ (~state.exists /\ state'.exists) =>
                 /\ call'.op \in {"initialize", "initialize_if_needed"}
                 /\ call'.err = Ok
           /\ (/\ Idle /\ call'.op = "close_storage"
               /\ state.exists
               /\ call'.is_signer /\ call'.authority # state.owner) =>
                 /\ call'.err = "Unauthorized"
                 /\ state' = state
                 /\ messages_storage' = messages_storage
           /\ (/\ Idle /\ call'.op = "close_storage"
               /\ state.exists
               /\ call'.is_signer /\ call'.authority = state.owner) =>
                 call'.err = Ok
           /\ (Idle /\ call'.op = "ccip_receive" /\ ~state.exists) =>
                 /\ call'.err # Ok
                 /\ messages_storage' = messages_storage
                 /\ token_accounts' = token_accounts ]_vars

\* C26, its case: the record had counted messages, the owner closed it, and
\* a message of the registered offramp is refused
C26_Witness ==
    /\ call.op = "ccip_receive"
    /\ call.err = "AccountNotInitialized"
    /\ call.is_signer
    /\ call.authority = AuthorityPda(call.offramp_program)
    /\ count_seen > 0
    /\ ~state.exists /\ ~messages_storage.exists

-----------------------------------------------------------------------------
(* Display of Decimal *)

\* the number a string of digits stands for; -1 when a character is no digit
RECURSIVE DigitsValue(_)
DigitsValue(str) ==
    IF str = <<>> THEN 0
    ELSE LET last == str[Len(str)]
             k == IF \E i \in 1..10 : DigitChars[i] = last
                  THEN (CHOOSE i \in 1..10 : DigitChars[i] = last) - 1 ELSE -1
             rest == DigitsValue(SubSeq(str, 1, Len(str) - 1))
         IN  IF k < 0 \/ rest < 0 THEN -1 ELSE rest * 10 + k

AllDigits(str) == str # <<>> /\ DigitsValue(str) >= 0
HasPoint(str) == \E i \in 1..Len(str) : str[i] = "."
Magnitude(v) == IF v < 0 THEN -v ELSE v

\* the price that the last execute has logged
Logged == call.op = "execute" /\ call.err = Ok

\* a string that is a sign exactly for a negative v, then digits of which
\* the last d are behind a point, and that reads |v| without the point
ScaledRendering(str, v, d) ==
    LET body == IF str # <<>> /\ str[1] = "-" THEN Tail(str) ELSE str
        whole == SubSeq(body, 1, Len(body) - d - 1)
        fraction == SubSeq(body, Len(body) - d + 1, Len(body))
    IN  /\ (str # <<>> /\ str[1] = "-") <=> v < 0
        /\ Len(body) >= d + 2
        /\ body[Len(body) - d] = "."
        /\ AllDigits(whole)
        /\ AllDigits(fraction) /\ Len(fraction) = d
        /\ DigitsValue(whole \o fraction) = Magnitude(v)
        /\ Len(NatToString(Magnitude(v))) <= d => whole = <<"0">>
        /\ Len(NatToString(Magnitude(v))) > d =>
              whole \o fraction = NatToString(Magnitude(v))

\* C27: for decimals d > 0 and a value v other than i128::MIN (whose
\* absolute value is no i128), what Display writes is a '-' exactly when
\* v < 0, then at least one digit, a '.', and exactly d digits; without the
\* '.' the digits read |v|, and when |v| has at most d digits the part before
\* the point is a single 0.
C27_ScaledDisplay ==
    (Logged /\ decimal.decimals > 0 /\ decimal.value # I128_MIN) =>
        /\ call.log = Display(decimal.value, decimal.decimals).out
        /\ ScaledRendering(call.log, decimal.value, decimal.decimals)

\* C27, its case: a negative value with fewer digits than decimals
C27_Witness ==
    /\ Logged
    /\ decimal.value = -5 /\ decimal.decimals = 3
    /\ call.log = <<"-", "0", ".", "0", "0", "5">>

\* C28: for decimals = 0 and every value, i128::MAX, i128::MIN and the
\* negative ones among them, the call succeeds in either build and what
\* Display writes is the plain rendering of the integer: a '-' exactly for a
\* negative value, then the digits of |v| without leading zeros, and no '.'.
C28_PlainDisplay ==
    /\ (call.op = "execute" /\ call.is_signer /\ call.err # Ok
           /\ chainlink_feed.decimals = 0) => decimal.exists
    /\ (Logged /\ decimal.decimals = 0) =>
          LET body == IF call.log[1] = "-" THEN Tail(call.log) ELSE call.log
          IN  /\ ~HasPoint(call.log)
              /\ call.log[1] = "-" <=> decimal.value < 0
              /\ AllDigits(body)
              /\ DigitsValue(body) = Magnitude(decimal.value)
              /\ Len(body) > 1 => body[1] # "0"

\* C28, its case: i128::MIN with no decimals, in a build with overflow checks
C28_Witness ==
    /\ Logged
    /\ decimal.value = I128_MIN /\ decimal.decimals = 0
    /\ overflow_checks
    /\ call.log = <<"-">> \o NatToString(-I128_MIN)

-----------------------------------------------------------------------------
(* Order of the authorization checks of ccip_receive *)

\* the call's authority is not the offramp's relay authority, or has not signed
RelayAuthorityFails ==
    \/ ~call.is_signer
    \/ ~AuthoritySeedsOk(call.authority, call.offramp_program)

\* the call's allowed_offramp is not the router's entry for the offramp and
\* the message's chain, or the router does not own it
AllowlistFails ==
    \/ ~AllowedOfframpSeedsOk(call.allowed_offramp, call.message, call.offramp_program)
    \/ ~AllowedOfframpOwnerOk(call.allowed_offramp)

\* C29: a ccip_receive that fails both the relay-authority proof and the
\* allowlist proof never reports an allowlist failure (InvalidCaller or the
\* seeds of allowed_offramp); once the program's accounts are loaded it
\* reports the failure of the relay authority, and nothing is changed.
C29_RelayAuthorityFirst ==
    (call.op = "ccip_receive" /\ RelayAuthorityFails /\ AllowlistFails) =>
        /\ call.err \notin {Ok, "InvalidCaller", "ConstraintSeeds:allowed_offramp"}
        /\ (state.exists /\ messages_storage.exists) =>
              call.err \in {"AccountNotSigner", "ConstraintSeeds:authority"}

\* C29, its case: a signed call whose authority is not the offramp's and
\* whose allowed_offramp no router owns
C29_Witness ==
    /\ call.op = "ccip_receive" /\ call.is_signer
    /\ state.exists /\ messages_storage.exists
    /\ ~AuthoritySeedsOk(call.authority, call.offramp_program)
    /\ AllowedOfframpSeedsOk(call.allowed_offramp, call.message, call.offramp_program)
    /\ ~AllowedOfframpOwnerOk(call.allowed_offramp)
    /\ call.err = "ConstraintSeeds:authority"

-----------------------------------------------------------------------------
(* The amount transferred and the amount the message lists *)

\* what the token accounts are credited with in the step
RECURSIVE Credited(_)
Credited(addresses) ==
    IF addresses = {} THEN 0
    ELSE LET a == CHOOSE x \in addresses : TRUE
             more == token_accounts'[a].amount - token_accounts[a].amount
         IN  (IF more > 0 THEN more ELSE 0) + Credited(addresses \ {a})

\* the step is an accepted ccip_receive of a message that lists a token
AcceptedWithTokenList ==
    /\ Idle
    /\ call'.op = "ccip_receive" /\ call'.err = Ok
    /\ call'.message.token_amounts # <<>>

\* the transfer names the custody account as its own recipient
TransferToItself ==
    ReachesTransfer(call') /\ call'.remaining[4] = call'.remaining[2]

\* C30: in every accepted ccip_receive of a message that lists a token, the
\* amount moved to the recipient is the amount of the first entry of the
\* message's token list, which is the amount recorded in
\* latest_message.token_amounts.
C30_TransfersTheListedAmount ==
    [][ AcceptedWithTokenList
        => /\ messages_storage'.latest_message.token_amounts =
                  call'.message.token_amounts
           /\ \/ Credited(TokenAddresses) = call'.message.token_amounts[1].amount
              \/ /\ TransferToItself
                 /\ call'.token_amount = call'.message.token_amounts[1].amount
      ]_vars

\* C30, its case: a message that lists one token accepted with the argument
\* token_amount = 0; one token is recorded and no transfer was made
C30_Witness ==
    /\ Accepted
    /\ call.token_amount = 0 /\ ~call.attempted
    /\ call.message.token_amounts # <<>>
    /\ call.message.token_amounts[1].amount = 1
    /\ messages_storage.latest_message.token_amounts = call.message.token_amounts

-----------------------------------------------------------------------------
(* Messages that list no token *)

\* the step is an accepted ccip_receive of a message whose token list is empty
AcceptedWithoutTokenList ==
    /\ Idle
    /\ call'.op = "ccip_receive" /\ call'.err = Ok
    /\ call'.message.token_amounts = <<>>

\* C31: an accepted ccip_receive of a message whose token_amounts list is
\* empty takes no token out of the custody account (no token account
\* changes), whatever the token amount argument is.
C31_NoListNoTransfer ==
    [][AcceptedWithoutTokenList => token_accounts' = token_accounts]_vars

\* C31, its case: a message with no data and no token list accepted with
\* token_amount = 1, the one token of the vault now in the recipient's account
C31_Witness ==
    /\ Accepted /\ call.attempted /\ call.token_amount = 1
    /\ call.message.token_amounts = <<>>
    /\ call.message.data = <<>>
    /\ messages_storage.latest_message.message_type = TokenTransfer
    /\ token_accounts[TokenVaultPda("mintA")].amount = 0
    /\ token_accounts[UserTokenAccount("mallory")].amount = 1

-----------------------------------------------------------------------------
(* lib.rs: the number of remaining accounts *)

\* the call has a list of amounts and its message is of a transfer type
TokensBranch ==
    /\ call.token_amounts # <<>>
    /\ MessageTypeOf(call.message) \in {TokenTransfer, ProgrammaticTokenTransfer}

ShapeOk == Len(call.remaining) = 6 * Len(call.token_amounts)

AllZero == \A i \in 1..Len(call.token_amounts) : call.token_amounts[i] = 0

\* C32: in ccip_receive of lib.rs, with a non-empty token_amounts argument
\* and a message of type TokenTransfer or ProgrammaticTokenTransfer, the
\* handler fails with InvalidRemainingAccounts exactly when the number of
\* remaining accounts is not 6 x len(token_amounts), also when every amount
\* is 0.  With the right number, an entry that is 0 is skipped: its six
\* accounts are not examined and nothing is transferred for it, and the
\* accounts of an entry that is not 0 are those at its own six positions.
C32_SixAccountsPerToken ==
    /\ [](AuthorizedCall /\ TokensBranch =>
            /\ ~ShapeOk <=> call.err = "InvalidRemainingAccounts"
            /\ ~ShapeOk => ~call.attempted
            /\ (ShapeOk /\ AllZero) => (call.err = Ok /\ ~call.attempted)
            /\ call.err = Ok =>
                  \A i \in 1..Len(call.token_amounts) :
                      call.token_amounts[i] # 0 =>
                          token_checks(token_accounts, call.remaining, i) = Ok)
    /\ [][(Idle /\ call'.op = "ccip_receive" /\ call'.token_amounts # <<>>
              /\ \A i \in 1..Len(call'.token_amounts) : call'.token_amounts[i] = 0)
           => token_accounts' = token_accounts]_vars

\* C32, its case: a list of one amount 0 with five remaining accounts, refused
C32_Witness ==
    /\ AuthorizedCall /\ TokensBranch
    /\ call.token_amounts = <<0>> /\ Len(call.remaining) = 5
    /\ call.err = "InvalidRemainingAccounts"

-----------------------------------------------------------------------------
(* lib.rs: the mints of the accounts of a token *)

\* the four conversions of lines 132-135 succeed for the token at index i
Converts(i) ==
    LET k == (i - 1) * 6
    IN  /\ \E m \in AllMints : call.remaining[k + 1] = MintAddress(m)
        /\ \E m \in Mints : call.remaining[k + 2] = TokenMetadataPda(m)
                               /\ token_metadata[m].exists
        /\ IsTokenAccount(token_accounts, call.remaining[k + 3])
        /\ IsTokenAccount(token_accounts, call.remaining[k + 5])

\* metadata, vault and recipient of the token at index i name the mint of
\* the mint handle
NamesTheMint(i) ==
    LET k == (i - 1) * 6
        mint == call.remaining[k + 1]
    IN  /\ MintAddress(MetadataAt(call.remaining[k + 2]).mint) = mint
        /\ MintAddress(token_accounts[call.remaining[k + 3]].mint) = mint
        /\ MintAddress(token_accounts[call.remaining[k + 5]].mint) = mint

NonzeroEntries == {i \in 1..Len(call.token_amounts) : call.token_amounts[i] # 0}

\* C33: in ccip_receive of lib.rs a transfer for token i is made only when
\* its metadata, vault and recipient accounts all name the mint of its mint
\* handle: an accepted call has this for every entry with a nonzero amount,
\* and a call with a nonzero entry for which one of the three differs
\* fails; it fails with TokenMismatch, before any transfer, when that entry
\* is the first one with a nonzero amount.
C33_TransferOnlyForMatchingMint ==
    (AuthorizedCall /\ TokensBranch /\ ShapeOk) =>
        /\ call.err = Ok => \A i \in NonzeroEntries : Converts(i) /\ NamesTheMint(i)
        /\ \A i \in NonzeroEntries :
              (Converts(i) /\ ~NamesTheMint(i)) =>
                  /\ call.err # Ok
                  /\ i = FirstToken(call) =>
                        (call.err = "TokenMismatch" /\ ~call.attempted)

\* C33, its case: one token whose recipient account alone is of another
\* mint, refused with TokenMismatch
C33_Witness ==
    /\ AuthorizedCall /\ call.token_amounts = <<1>> /\ Len(call.remaining) = 6
    /\ call.remaining[1] = MintAddress("mintA")
    /\ call.remaining[3] = TokenVaultPda("mintA")
    /\ token_accounts[TokenVaultPda("mintA")].exists
    /\ call.remaining[5] = OtherMintTokenAccount
    /\ call.err = "TokenMismatch" /\ ~call.attempted

-----------------------------------------------------------------------------
(* lib.rs: total_received *)

\* the step is an accepted ccip_receive of lib.rs that transferred the
\* nonzero amounts of its list
AcceptedTokenTransfer ==
    /\ Idle
    /\ call'.op = "ccip_receive" /\ call'.err = Ok /\ call'.attempted

RECURSIVE SumOf(_)
SumOf(amounts) == IF amounts = <<>> THEN 0 ELSE Head(amounts) + SumOf(Tail(amounts))

\* C34: get_token_balance reports the total_received of the mint's metadata
\* account, and an accepted ccip_receive that transfers a > 0 of the mint
\* leaves total_received larger by a than it was before the call.
C34_TotalReceivedCounts ==
    /\ []((call.op = "get_token_balance" /\ call.err = Ok) =>
            call.balance_info.total_received =
                token_metadata[call.balance_info.mint].total_received)
    /\ [][AcceptedTokenTransfer =>
             token_metadata'["mintA"].total_received =
                 token_metadata["mintA"].total_received + SumOf(call'.token_amounts)]_vars

\* C34, its case: get_token_balance reports total_received = 0 after a token
\* of the mint has gone from the vault to a recipient
C34_Witness ==
    /\ call.op = "get_token_balance" /\ call.err = Ok
    /\ call.balance_info.mint = "mintA"
    /\ call.balance_info.total_received = 0
    /\ token_accounts[UserTokenAccount("mallory")].amount = 1
    /\ messages_storage.message_count > 0

-----------------------------------------------------------------------------
(* lib.rs: the derivation of the metadata address *)

\* a ccip_receive whose handler ran, for one token of mintA with the
\* accounts that initialize_token_vault made for mintA and a recipient
\* account of mintA
GenuineTokenCall ==
    /\ AuthorizedCall
    /\ call.token_amounts = <<1>>
    /\ call.remaining = TokenGroup("mintA", UserTokenAccount("mallory"))
    /\ call.message.data = <<>>
    /\ token_metadata["mintA"].exists
    /\ token_accounts[TokenVaultPda("mintA")].exists

\* C35: a ccip_receive of lib.rs with a nonzero amount and the genuine mint,
\* metadata, vault, vault authority and recipient accounts is never refused
\* with AccountValidationFailed and never aborts in the derivation of the
\* metadata address.
C35_GenuineMetadataPasses ==
    GenuineTokenCall =>
        call.err \notin {"AccountValidationFailed", "ProgramFailedToComplete"}

\* C35, its case: the genuine accounts refused, the seeds of the metadata
\* with the bump of the state PDA giving another address
C35_Witness ==
    /\ GenuineTokenCall
    /\ bumps["mintA"] = "other_address"
    /\ call.err = "AccountValidationFailed" /\ ~call.attempted
    /\ token_accounts[TokenVaultPda("mintA")].amount = 1

-----------------------------------------------------------------------------
(* initialize_token_vault *)

\* the step is an initialize_token_vault
TokenVaultCall == Idle /\ call'.op = "initialize_token_vault"

\* the signer of the call is another identity than state.owner
SignedByAnother ==
    state.exists /\ call'.is_signer /\ call'.authority # state.owner

\* C36 as stated: an initialize_token_vault signed by another identity than
\* state.owner fails with OnlyOwner.
C36_NonOwnerFailsOnlyOwner ==
    [][(TokenVaultCall /\ SignedByAnother) => call'.err = "OnlyOwner"]_vars

\* C36, amended: initialize_token_vault succeeds only when state.owner has
\* signed and the mint has no vault yet; what it creates is the vault of the
\* given mint, empty, with the derived "token_vault" identity as authority,
\* and nothing else changes.  A call of another signer, and a call for a
\* mint that has a vault, fail and change nothing: the existing vault and
\* its balance stay.  The vault is created before the signer is compared
\* with the owner, so another signer fails with OnlyOwner when the mint has
\* no vault and with AccountAlreadyInUse (from the creation) when it has one.
C36_VaultOnceByOwner ==
    [][ TokenVaultCall =>
          LET vault == TokenVaultPda(call'.mint)
          IN  /\ call'.err = Ok =>
                    /\ state.exists /\ call'.is_signer
                    /\ call'.authority = state.owner
                    /\ ~token_accounts[vault].exists
                    /\ token_accounts' =
                           [token_accounts EXCEPT ![vault] =
                                TokenAccount(call'.mint, TokenVaultAuthorityPda, 0)]
              /\ call'.err # Ok => token_accounts' = token_accounts
              /\ token_accounts[vault].exists => call'.err # Ok
              /\ SignedByAnother =>
                    call'.err = IF token_accounts[vault].exists
                                THEN "AccountAlreadyInUse" ELSE "OnlyOwner"
              /\ UNCHANGED <<state, messages_storage, program_accounts>>
      ]_vars

\* C36, its case: another signer asks for the vault of a mint that has one
\* holding a token; the call fails in the creation and the token stays
C36_Witness ==
    /\ call.op = "initialize_token_vault" /\ call.is_signer
    /\ state.exists /\ call.authority # state.owner
    /\ call.err = "AccountAlreadyInUse"
    /\ token_accounts[TokenVaultPda(call.mint)].exists
    /\ token_accounts[TokenVaultPda(call.mint)].amount = 1
    /\ token_accounts[TokenVaultPda(call.mint)].authority = TokenVaultAuthorityPda

-----------------------------------------------------------------------------
(* Messages within the declared bounds *)

\* the message is within the bounds of state.rs 3-6
WithinBounds(m) ==
    /\ Len(m.data) <= MAX_MESSAGE_DATA_SIZE
    /\ Len(m.token_amounts) <= MAX_TOKEN_AMOUNTS
    /\ Len(m.sender) <= MAX_SENDER_ADDRESS_SIZE

\* C37: an authorized ccip_receive of a message within the declared bounds
\* is never refused because the message does not fit MessagesStorage.
C37_BoundedMessageFits ==
    (AuthorizedCall /\ WithinBounds(call.message)) =>
        call.err # "AccountDidNotSerialize"

\* C37, its case: a payload of MAX_MESSAGE_DATA_SIZE bytes and no tokens,
\* refused on writing to the storage that initialize.rs created
C37_Witness ==
    /\ AuthorizedCall /\ WithinBounds(call.message)
    /\ Len(call.message.data) = MAX_MESSAGE_DATA_SIZE
    /\ call.message.token_amounts = <<>>
    /\ messages_storage.space = InitSpace
    /\ call.err = "AccountDidNotSerialize"
    /\ messages_storage.message_count = 0

-----------------------------------------------------------------------------
(* The stored message type *)

\* C38: in every state in which MessagesStorage exists, from initialize on,
\* the stored latest_message.message_type is the classification of the
\* stored data and token_amounts: ProgrammaticTokenTransfer iff both are
\* non-empty, ArbitraryMessaging iff the data is non-empty and the token
\* list is empty, TokenTransfer otherwise.
C38_StoredTypeIsClassification ==
    messages_storage.exists =>
        LET latest == messages_storage.latest_message
        IN  /\ latest.message_type = ProgrammaticTokenTransfer
                  <=> (latest.data # <<>> /\ latest.token_amounts # <<>>)
            /\ latest.message_type = ArbitraryMessaging
                  <=> (latest.data # <<>> /\ latest.token_amounts = <<>>)
            /\ latest.message_type = TokenTransfer <=> latest.data = <<>>

\* C38, its case: a data message stored over the default message of
\* initialize, after a call that was refused
C38_Witness ==
    /\ call.op = "ccip_receive" /\ call.err # Ok
    /\ messages_storage.exists /\ messages_storage.message_count = 1
    /\ messages_storage.latest_message.message_type = ArbitraryMessaging
    /\ messages_storage.latest_message.data # <<>>
    /\ messages_storage.latest_message.token_amounts = <<>>

-----------------------------------------------------------------------------
(* A message delivered again *)

\* the message of the call is the one that is stored already
Replayed ==
    /\ messages_storage.message_count > 0
    /\ HoldsMessage(messages_storage.latest_message, call'.message)

\* the vault holds what the call asks to move, and the call names the five
\* accounts of the vault and a recipient
TransferCanBeMade ==
    /\ call'.remaining = RemainingFive(UserTokenAccount("mallory"))
    /\ token_accounts[TokenVaultPda("mintA")].amount >= call'.token_amount

\* C39: ccip_receive does not look at message_id or at the stored
\* latest_message: an authorized call is accepted and counted whenever it
\* asks for no transfer, or for one that can be made, also when its message
\* is the stored one delivered again; the amount is then moved again.
C39_NoDeduplication ==
    [][ (Idle /\ AuthorizedIn(call'))
        => /\ call'.token_amount = 0 =>
                 /\ call'.err = Ok
                 /\ messages_storage'.message_count = messages_storage.message_count + 1
                 /\ token_accounts' = token_accounts
           /\ (call'.token_amount > 0 /\ TransferCanBeMade) =>
                 /\ call'.err = Ok
                 /\ messages_storage'.message_count = messages_storage.message_count + 1
                 /\ token_accounts'[TokenVaultPda("mintA")].amount =
                        token_accounts[TokenVaultPda("mintA")].amount - call'.token_amount
                 /\ token_accounts'[UserTokenAccount("mallory")].amount =
                        token_accounts[UserTokenAccount("mallory")].amount
                            + call'.token_amount
           /\ (Replayed /\ call'.err # Ok) =>
                 (call'.token_amount > 0 /\ ~TransferCanBeMade)
      ]_vars

\* C39, its case: the same message accepted twice, each time with
\* token_amount = 1: the count is 2 and two tokens have gone to the recipient
C39_Witness ==
    /\ Accepted /\ call.attempted /\ call.message = ReplayMessage
    /\ messages_storage.message_count = 2
    /\ token_accounts[UserTokenAccount("mallory")].amount = 2
    /\ token_accounts[TokenVaultPda("mintA")].amount = Supply - 1

-----------------------------------------------------------------------------
(* What the instructions leave alone *)

\* the instructions that only read BaseState
ReadersOfState ==
    {"ccip_receive", "get_latest_message", "initialize_token_vault", "withdraw_tokens"}

\* C40: ccip_receive, get_latest_message, initialize_token_vault and
\* withdraw_tokens, accepted or refused, leave owner and router of BaseState
\* as they are; initialize_token_vault and withdraw_tokens leave
\* MessagesStorage (message_count, last_updated, latest_message) as it is
\* too; and when owner or router of an existing BaseState has a new value,
\* the step is an accepted initialize (of initialize.rs, or the one of the
\* accounts of context.rs).
C40_OwnerAndRouterOnlyByInitialize ==
    [][ /\ (Idle /\ call'.op \in ReadersOfState) =>
               /\ state' = state
               /\ call'.op \in {"initialize_token_vault", "withdraw_tokens"} =>
                      messages_storage' = messages_storage
        /\ (state'.exists
              /\ (state'.owner # state.owner \/ state'.router # state.router)) =>
               /\ Idle /\ call'.err = Ok
               /\ call'.op \in {"initialize", "initialize_if_needed"}
      ]_vars

\* C40, its case: a withdrawal of the owner carried out with a message
\* stored; owner, router and the count as they were
C40_Witness ==
    /\ call.op = "withdraw_tokens" /\ call.err = Ok
    /\ state.exists /\ state.owner = call.authority
    /\ messages_storage.message_count = 1
    /\ messages_storage.latest_message.data # <<>>

====
